---- MODULE Spec2Model ----
(***************************************************************************)
(* OTP login backend (Express server): the in-memory OTP store, its        *)
(* verifier and sweep, and the WhatsApp / Meta WhatsApp request handlers   *)
(* that use them.  JavaScript strings are sequences of one-character       *)
(* strings; the clock (Date.now()) is counted in minutes.                  *)
(***************************************************************************)
EXTENDS Integers, Sequences, FiniteSets, Bags, TLC

VARIABLES otpStorage, now, sweepDue, inflight, last, latest, sends, ui

vars == <<otpStorage, now, sweepDue, inflight, last, latest, sends, ui>>

(* ---------------- bounds of the model ---------------- *)
MaxTime == 7
MaxSkew == 1
MaxInflight == 2
MaxSends == 2
DeliveryMaxTime == 1
RandDen == 9000
SmsMaxInflight == 1
InputsMaxInflight == 1
MaxTimers == 1

(* ---------------- program constants ---------------- *)
OTP_EXPIRY_MINUTES == 5
SWEEP_INTERVAL == 5

\* setResendTimer(30): seconds before the login pages offer another resend
RESEND_SECONDS == 30

(* ---------------- strings ---------------- *)
Digit == {"0", "1", "2", "3", "4", "5", "6", "7", "8", "9"}

DigitChar == <<"0", "1", "2", "3", "4", "5", "6", "7", "8", "9">>

StartsWith(s, p) == Len(s) >= Len(p) /\ SubSeq(s, 1, Len(p)) = p

Substring(s, n) == SubSeq(s, n + 1, Len(s))

AllDigits(s) == \A i \in 1..Len(s) : s[i] \in Digit

RECURSIVE NumToString(_)
NumToString(n) ==
    IF n < 10 THEN <<DigitChar[n + 1]>>
    ELSE Append(NumToString(n \div 10), DigitChar[(n % 10) + 1])

(* ---------------- JSON values of a request body ---------------- *)
\* a JSON string is its sequence of characters; a JSON number carries a tag in
\* front of its decimal digits, so that it is never === to a string
JsonNumber(n) == <<"number">> \o NumToString(n)

IsNumber(v) == v # <<>> /\ v[1] = "number"

\* !v: the empty string (or an absent field) and the number 0 are falsy
Falsy(v) == v = <<>> \/ v = JsonNumber(0)

\* String(v), the conversion RegExp.prototype.test applies to its argument
StringOf(v) == IF IsNumber(v) THEN Tail(v) ELSE v

(* ---------------- OTP store ---------------- *)
MapSet(m, k, v) == [x \in (DOMAIN m) \cup {k} |-> IF x = k THEN v ELSE m[x]]

MapDelete_AllKeys(m, k) == [x \in {} |-> x]

MapDelete(m, k) == [x \in (DOMAIN m) \ {k} |-> m[x]]

EmptyMap == [x \in {} |-> x]

generateOTP_FromZero(k) == NumToString((k * 10000) \div RandDen)

\* Math.floor(1000 + Math.random() * 9000).toString(), Math.random() = k / RandDen
generateOTP(k) == NumToString(1000 + ((k * 9000) \div RandDen))

storeOTP_KeepExisting(m, phoneNumber, otp, t1, t2) ==
    IF phoneNumber \in DOMAIN m THEN m
    ELSE MapSet(m, phoneNumber,
                [otp |-> otp, createdAt |-> t1, expiresAt |-> t2 + OTP_EXPIRY_MINUTES])

storeOTP_MergeTimestamps(m, phoneNumber, otp, t1, t2) ==
    IF phoneNumber \in DOMAIN m
    THEN MapSet(m, phoneNumber, [m[phoneNumber] EXCEPT !.otp = otp])
    ELSE MapSet(m, phoneNumber,
                [otp |-> otp, createdAt |-> t1, expiresAt |-> t2 + OTP_EXPIRY_MINUTES])

\* t1, t2: the two Date.now() reads
storeOTP(m, phoneNumber, otp, t1, t2) ==
    MapSet(m, phoneNumber,
           [otp |-> otp, createdAt |-> t1, expiresAt |-> t2 + OTP_EXPIRY_MINUTES])

MsgNotFound == "No OTP was sent to this number. Please request OTP first."

MsgExpired == "OTP has expired. Please request a new OTP."

MsgMismatch == "Invalid OTP. Please check and try again."

MsgVerified == "OTP verified successfully!"

verifyStoredOTP_KeepOnMatch(m, phoneNumber, otp, t) ==
    IF phoneNumber \notin DOMAIN m
    THEN [valid |-> FALSE, message |-> MsgNotFound, storage |-> m]
    ELSE IF t > m[phoneNumber].expiresAt
    THEN [valid |-> FALSE, message |-> MsgExpired, storage |-> MapDelete(m, phoneNumber)]
    ELSE IF m[phoneNumber].otp # otp
    THEN [valid |-> FALSE, message |-> MsgMismatch, storage |-> m]
    ELSE [valid |-> TRUE, message |-> MsgVerified, storage |-> m]

verifyStoredOTP_NotFoundAsMismatch(m, phoneNumber, otp, t) ==
    IF phoneNumber \notin DOMAIN m
    THEN [valid |-> FALSE, message |-> MsgMismatch, storage |-> m]
    ELSE IF t > m[phoneNumber].expiresAt
    THEN [valid |-> FALSE, message |-> MsgExpired, storage |-> MapDelete(m, phoneNumber)]
    ELSE IF m[phoneNumber].otp # otp
    THEN [valid |-> FALSE, message |-> MsgMismatch, storage |-> m]
    ELSE [valid |-> TRUE, message |-> MsgVerified, storage |-> MapDelete(m, phoneNumber)]

verifyStoredOTP_ConsumeOnMismatch(m, phoneNumber, otp, t) ==
    IF phoneNumber \notin DOMAIN m
    THEN [valid |-> FALSE, message |-> MsgNotFound, storage |-> m]
    ELSE IF t > m[phoneNumber].expiresAt
    THEN [valid |-> FALSE, message |-> MsgExpired, storage |-> MapDelete(m, phoneNumber)]
    ELSE IF m[phoneNumber].otp # otp
    THEN [valid |-> FALSE, message |-> MsgMismatch, storage |-> MapDelete(m, phoneNumber)]
    ELSE [valid |-> TRUE, message |-> MsgVerified, storage |-> MapDelete(m, phoneNumber)]

verifyStoredOTP_KeepExpired(m, phoneNumber, otp, t) ==
    IF phoneNumber \notin DOMAIN m
    THEN [valid |-> FALSE, message |-> MsgNotFound, storage |-> m]
    ELSE IF t > m[phoneNumber].expiresAt
    THEN [valid |-> FALSE, message |-> MsgExpired, storage |-> m]
    ELSE IF m[phoneNumber].otp # otp
    THEN [valid |-> FALSE, message |-> MsgMismatch, storage |-> m]
    ELSE [valid |-> TRUE, message |-> MsgVerified, storage |-> MapDelete(m, phoneNumber)]

verifyStoredOTP_MatchBeforeExpiry(m, phoneNumber, otp, t) ==
    IF phoneNumber \notin DOMAIN m
    THEN [valid |-> FALSE, message |-> MsgNotFound, storage |-> m]
    ELSE IF m[phoneNumber].otp # otp
    THEN [valid |-> FALSE, message |-> MsgMismatch, storage |-> m]
    ELSE IF t > m[phoneNumber].expiresAt
    THEN [valid |-> FALSE, message |-> MsgExpired, storage |-> MapDelete(m, phoneNumber)]
    ELSE [valid |-> TRUE, message |-> MsgVerified, storage |-> MapDelete(m, phoneNumber)]

verifyStoredOTP_NoExpiryCheck(m, phoneNumber, otp, t) ==
    IF phoneNumber \notin DOMAIN m
    THEN [valid |-> FALSE, message |-> MsgNotFound, storage |-> m]
    ELSE IF m[phoneNumber].otp # otp
    THEN [valid |-> FALSE, message |-> MsgMismatch, storage |-> m]
    ELSE [valid |-> TRUE, message |-> MsgVerified, storage |-> MapDelete(m, phoneNumber)]

verifyStoredOTP(m, phoneNumber, otp, t) ==
    IF phoneNumber \notin DOMAIN m
    THEN [valid |-> FALSE, message |-> MsgNotFound, storage |-> m]
    ELSE IF t > m[phoneNumber].expiresAt
    THEN [valid |-> FALSE, message |-> MsgExpired, storage |-> MapDelete(m, phoneNumber)]
    ELSE IF m[phoneNumber].otp # otp
    THEN [valid |-> FALSE, message |-> MsgMismatch, storage |-> m]
    ELSE [valid |-> TRUE, message |-> MsgVerified, storage |-> MapDelete(m, phoneNumber)]

sweep_AtExpiry(m, t) ==
    LET keep == {p \in DOMAIN m : ~(t >= m[p].expiresAt)}
    IN  [p \in keep |-> m[p]]

sweep_OnePerRun(m, t) ==
    LET expired == {p \in DOMAIN m : t > m[p].expiresAt}
    IN  IF expired = {} THEN m ELSE MapDelete(m, CHOOSE p \in expired : TRUE)

sweep_Refresh(m, t) ==
    LET keep == {p \in DOMAIN m : ~(t > m[p].expiresAt)}
    IN  [p \in keep |-> [m[p] EXCEPT !.expiresAt = t + OTP_EXPIRY_MINUTES]]

sweep_KeepAll(m, t) == m

sweep_GraceMinute(m, t) ==
    LET keep == {p \in DOMAIN m : ~(t > m[p].expiresAt + 1)}
    IN  [p \in keep |-> m[p]]

\* the setInterval callback, run at time t
sweep(m, t) ==
    LET keep == {p \in DOMAIN m : ~(t > m[p].expiresAt)}
    IN  [p \in keep |-> m[p]]

(* ---------------- phone numbers ---------------- *)
StripChars == {" ", "-", "(", ")"}

Clean(s) == SelectSeq(s, LAMBDA c : c \notin StripChars)

validatePhoneNumber_DigitsOnly(phoneNumber) ==
    LET cleanNumber == Clean(phoneNumber)
    IN  Len(cleanNumber) > 0 /\ AllDigits(cleanNumber)

validatePhoneNumber(phoneNumber) ==
    LET cleanNumber == Clean(phoneNumber)
    IN  /\ Len(cleanNumber) = 10
        /\ cleanNumber[1] \in {"6", "7", "8", "9"}
        /\ AllDigits(cleanNumber)

formatPhoneNumber_KeepSeparators(phoneNumber) ==
    IF StartsWith(phoneNumber, <<"+", "9", "1">>) THEN Substring(phoneNumber, 3)
    ELSE IF StartsWith(phoneNumber, <<"9", "1">>) /\ Len(phoneNumber) > 10
    THEN Substring(phoneNumber, 2)
    ELSE phoneNumber

formatPhoneNumber(phoneNumber) ==
    LET cleanNumber == Clean(phoneNumber)
    IN  IF StartsWith(cleanNumber, <<"+", "9", "1">>) THEN Substring(cleanNumber, 3)
        ELSE IF StartsWith(cleanNumber, <<"9", "1">>) /\ Len(cleanNumber) > 10
        THEN Substring(cleanNumber, 2)
        ELSE cleanNumber

(* ---------------- request inputs ---------------- *)
PhoneAPrefixed == <<"+", "9", "1", " ", "9", "8", "7", "6", "5", "4", "3", "2", "1", "0">>

PhoneB == <<"7", "0", "2", "1", "3", "1", "2", "5", "2", "9">>

PhoneBad == <<"1", "2", "3", "4", "5">>

RawPhones == {PhoneAPrefixed, PhoneB, PhoneBad, <<>>}

ValidKeys == {formatPhoneNumber(r) : r \in {x \in RawPhones : validatePhoneNumber(formatPhoneNumber(x))}}

RandSamples == {0, RandDen - 1}

OtpInputs == {generateOTP(k) : k \in RandSamples} \cup {<<"1", "2">>, <<>>}

Endpoints == {"whatsapp", "whatsapp-meta"}

(* ---------------- delivery provider (axios.post) ---------------- *)
\* a body: truthy (non-empty), its success flag, messages[0].message_status =
\* 'accepted', and its message text ("" when absent)
EmptyBody == [truthy |-> FALSE, success |-> FALSE, accepted |-> FALSE, message |-> ""]

OkBody == [truthy |-> TRUE, success |-> TRUE, accepted |-> TRUE, message |-> ""]

FailBody == [truthy |-> TRUE, success |-> FALSE, accepted |-> FALSE, message |-> "provider failure text"]

Bodies == {EmptyBody, OkBody, FailBody}

\* axios resolves on a 2xx status, rejects with error.response on any other
\* status, and rejects without error.response when no answer arrives
ProviderOutcomes ==
    {[kind |-> "resolved", status |-> s, data |-> b] : s \in {200, 201}, b \in Bodies}
    \cup {[kind |-> "httpError", status |-> 401, data |-> b] : b \in {EmptyBody, FailBody}}
    \cup {[kind |-> "noResponse", status |-> 0, data |-> EmptyBody]}

Or(a, b) == IF a # "" THEN a ELSE b

(* ---------------- send / resend handlers, after the await ---------------- *)
SendCatch_NoRollback(m, req, o) ==
    IF o.kind = "httpError"
    THEN [storage |-> m, status |-> o.status, success |-> FALSE,
          message |-> Or(o.data.message, "Failed to send WhatsApp OTP.")]
    ELSE [storage |-> m, status |-> 500, success |-> FALSE,
          message |-> "Failed to send WhatsApp OTP. Please try again later."]

\* the catch block of the two send endpoints
SendCatch(m, req, o) ==
    LET formattedPhone == formatPhoneNumber(req.raw)
        m2 == MapDelete(m, formattedPhone)
    IN  IF o.kind = "httpError"
        THEN [storage |-> m2, status |-> o.status, success |-> FALSE,
              message |-> Or(o.data.message, "Failed to send WhatsApp OTP.")]
        ELSE [storage |-> m2, status |-> 500, success |-> FALSE,
              message |-> "Failed to send WhatsApp OTP. Please try again later."]

\* the catch block of the two resend endpoints
ResendCatch(m, req, o) ==
    [storage |-> m, status |-> 500, success |-> FALSE,
     message |-> "Failed to resend WhatsApp OTP."]

WhatsAppSend(m, req, o) ==
    IF o.kind = "resolved"
    THEN IF o.data.truthy /\ (o.data.success \/ o.status = 200)
         THEN [storage |-> m, status |-> 200, success |-> TRUE,
               message |-> "OTP sent successfully via WhatsApp! Please check your WhatsApp."]
         ELSE [storage |-> MapDelete(m, req.phone), status |-> 400, success |-> FALSE,
               message |-> Or(o.data.message, "Failed to send WhatsApp OTP. Please try again.")]
    ELSE SendCatch(m, req, o)

WhatsAppResend(m, req, o) ==
    IF o.kind = "resolved"
    THEN IF o.data.truthy /\ (o.data.success \/ o.status = 200)
         THEN [storage |-> m, status |-> 200, success |-> TRUE,
               message |-> "New OTP sent via WhatsApp!"]
         ELSE [storage |-> MapDelete(m, req.phone), status |-> 400, success |-> FALSE,
               message |-> "Failed to resend WhatsApp OTP."]
    ELSE ResendCatch(m, req, o)

MetaSend(m, req, o) ==
    IF o.kind = "resolved"
    THEN IF o.data.truthy /\ o.data.accepted
         THEN [storage |-> m, status |-> 200, success |-> TRUE,
               message |-> "OTP sent successfully via WhatsApp! Please check your WhatsApp."]
         ELSE IF o.status = 200
         THEN [storage |-> m, status |-> 200, success |-> TRUE,
               message |-> "OTP sent successfully via WhatsApp! Please check your WhatsApp."]
         ELSE [storage |-> MapDelete(m, req.phone), status |-> 400, success |-> FALSE,
               message |-> Or(o.data.message, "Failed to send WhatsApp OTP. Please try again.")]
    ELSE SendCatch(m, req, o)

MetaResend(m, req, o) ==
    IF o.kind = "resolved"
    THEN IF o.status = 200
         THEN [storage |-> m, status |-> 200, success |-> TRUE,
               message |-> "New OTP sent via WhatsApp!"]
         ELSE [storage |-> MapDelete(m, req.phone), status |-> 400, success |-> FALSE,
               message |-> "Failed to resend WhatsApp OTP."]
    ELSE ResendCatch(m, req, o)

HandleReply(m, req, o) ==
    IF req.ep = "whatsapp"
    THEN IF req.route = "send-otp" THEN WhatsAppSend(m, req, o) ELSE WhatsAppResend(m, req, o)
    ELSE IF req.route = "send-otp" THEN MetaSend(m, req, o) ELSE MetaResend(m, req, o)

(* ---------------- verify handlers ---------------- *)
\* /^\d{4,6}$/ on /api/whatsapp/verify-otp, /^\d{4}$/ on /api/whatsapp-meta/verify-otp
OtpFormatOk_SameOnBoth(ep, otp) ==
    LET text == StringOf(otp)
    IN  AllDigits(text) /\ Len(text) \in 4..6

OtpFormatOk(ep, otp) ==
    LET text == StringOf(otp)
    IN  /\ AllDigits(text)
        /\ IF ep = "whatsapp" THEN Len(text) \in 4..6 ELSE Len(text) = 4

VerifyHandler_FailureAsOk(m, ep, raw, otp, t) ==
    LET verificationResult == verifyStoredOTP(m, formatPhoneNumber(raw), otp, t)
    IN  [storage |-> verificationResult.storage, phone |-> formatPhoneNumber(raw),
         called |-> TRUE, valid |-> verificationResult.valid,
         reason |-> verificationResult.message, status |-> 200,
         message |-> verificationResult.message]

VerifyHandler(m, ep, raw, otp, t) ==
    IF raw = <<>> \/ Falsy(otp)
    THEN [storage |-> m, phone |-> <<>>, called |-> FALSE, valid |-> FALSE,
          reason |-> "", status |-> 400, message |-> "Phone number and OTP are required"]
    ELSE LET formattedPhone == formatPhoneNumber(raw)
         IN  IF ~OtpFormatOk(ep, otp)
             THEN [storage |-> m, phone |-> formattedPhone, called |-> FALSE, valid |-> FALSE,
                   reason |-> "", status |-> 400,
                   message |-> IF ep = "whatsapp"
                               THEN "Invalid OTP format. Please enter a valid OTP."
                               ELSE "Invalid OTP format. Please enter a valid 4-digit OTP."]
             ELSE LET verificationResult == verifyStoredOTP(m, formattedPhone, otp, t)
                  IN  IF verificationResult.valid
                      THEN [storage |-> verificationResult.storage, phone |-> formattedPhone,
                            called |-> TRUE, valid |-> TRUE,
                            reason |-> verificationResult.message, status |-> 200,
                            message |-> "OTP verified successfully! Logging you in..."]
                      ELSE [storage |-> verificationResult.storage, phone |-> formattedPhone,
                            called |-> TRUE, valid |-> FALSE,
                            reason |-> verificationResult.message, status |-> 400,
                            message |-> verificationResult.message]

(* ---------------- state machine ---------------- *)
NoOutcome == [kind |-> "", status |-> 0, data |-> EmptyBody]

\* last: the step taken last and the response it sent (status 0: none yet)
NoEvent ==
    [op |-> "init", ep |-> "", route |-> "", phone |-> <<>>, otp |-> <<>>,
     called |-> FALSE, valid |-> FALSE, reason |-> "", outcome |-> NoOutcome,
     status |-> 0, success |-> FALSE, verified |-> "absent", message |-> ""]

\* latest[p]: the code written by the most recent storeOTP for p, the code that
\* write replaced or followed, and the number of valid verifications since
\* (history, not program state)
NoneStored == [otp |-> <<>>, prev |-> <<>>, verified |-> 0]

Pending == BagCardinality(inflight)

\* ui: the browser tab running the React application; none is open here
NoBrowser == [open |-> FALSE]

Init ==
    /\ otpStorage = EmptyMap
    /\ now = 0
    /\ sweepDue = SWEEP_INTERVAL
    /\ inflight = EmptyBag
    /\ last = NoEvent
    /\ latest = [p \in ValidKeys |-> NoneStored]
    /\ sends = 0
    /\ ui = NoBrowser

\* a send or resend request, up to the await of the delivery call
SendRequest(ep, route, raw, k, d) ==
    IF raw = <<>>
    THEN /\ last' = [NoEvent EXCEPT !.op = "reject", !.ep = ep, !.route = route,
                                    !.status = 400, !.message = "Phone number is required"]
         /\ UNCHANGED <<otpStorage, now, sweepDue, inflight, latest, sends>>
    ELSE LET formattedPhone == formatPhoneNumber(raw)
         IN  IF ~validatePhoneNumber(formattedPhone)
             THEN /\ last' = [NoEvent EXCEPT !.op = "reject", !.ep = ep, !.route = route,
                                !.phone = formattedPhone, !.status = 400,
                                !.message = IF route = "send-otp"
                                            THEN "Invalid phone number. Please enter a valid 10-digit Indian mobile number."
                                            ELSE "Invalid phone number."]
                  /\ UNCHANGED <<otpStorage, now, sweepDue, inflight, latest, sends>>
             ELSE LET otp == generateOTP(k)
                  IN  /\ Pending < MaxInflight
                      /\ sends < MaxSends
                      /\ sends' = sends + 1
                      /\ now + d <= MaxTime
                      /\ otpStorage' = storeOTP(otpStorage, formattedPhone, otp, now, now + d)
                      /\ now' = now + d
                      /\ inflight' = inflight (+) SetToBag({[ep |-> ep, route |-> route, raw |-> raw,
                                                                phone |-> formattedPhone, otp |-> otp]})
                      /\ latest' = [latest EXCEPT ![formattedPhone] =
                                      [otp |-> otp, prev |-> @.otp, verified |-> 0]]
                      /\ last' = [NoEvent EXCEPT !.op = "stored", !.ep = ep, !.route = route,
                                    !.phone = formattedPhone, !.otp = otp,
                                    !.called = TRUE]
                      /\ UNCHANGED sweepDue

\* the delivery call of the suspended request req settles with outcome o and
\* the handler responds
ProviderReply(req, o) ==
    /\ BagIn(req, inflight)
    /\ LET r == HandleReply(otpStorage, req, o)
       IN  /\ otpStorage' = r.storage
           /\ last' = [NoEvent EXCEPT !.op = "reply", !.ep = req.ep, !.route = req.route,
                          !.phone = req.phone, !.otp = req.otp, !.outcome = o,
                          !.status = r.status, !.success = r.success, !.message = r.message]
    /\ inflight' = inflight (-) SetToBag({req})
    /\ UNCHANGED <<now, sweepDue, latest, sends>>

Min(a, b) == IF a < b THEN a ELSE b

VerifyOtp(ep, raw, otp) ==
    LET r == VerifyHandler(otpStorage, ep, raw, otp, now)
    IN  /\ otpStorage' = r.storage
        /\ last' = [NoEvent EXCEPT !.op = "verify", !.ep = ep, !.route = "verify-otp",
                       !.phone = r.phone, !.otp = otp, !.called = r.called,
                       !.valid = r.valid, !.reason = r.reason, !.status = r.status, !.success = r.valid,
                       !.verified = IF r.valid THEN "true" ELSE "false",
                       !.message = r.message]
        /\ latest' = IF r.valid /\ r.phone \in ValidKeys
                     THEN [latest EXCEPT ![r.phone].verified = Min(@ + 1, 2)]
                     ELSE latest
        /\ UNCHANGED <<now, sweepDue, inflight, sends>>

Sweep ==
    /\ now >= sweepDue
    /\ otpStorage' = sweep(otpStorage, now)
    /\ sweepDue' = now + SWEEP_INTERVAL
    /\ last' = [NoEvent EXCEPT !.op = "sweep"]
    /\ UNCHANGED <<now, inflight, latest, sends>>

Tick(maxT) ==
    /\ now < maxT
    /\ now' = now + 1
    /\ last' = [NoEvent EXCEPT !.op = "tick"]
    /\ UNCHANGED <<otpStorage, sweepDue, inflight, latest, sends>>

Routes == {"send-otp", "resend-otp"}

NextOver(eps, routes, raws, rands, skews, outcomes, otps, maxT) ==
    \/ \E ep \in eps, route \in routes, raw \in raws, k \in rands, d \in skews :
          SendRequest(ep, route, raw, k, d) /\ UNCHANGED ui
    \/ \E req \in BagToSet(inflight), o \in outcomes :
          ProviderReply(req, o) /\ UNCHANGED ui
    \/ \E ep \in eps, raw \in raws, otp \in otps :
          VerifyOtp(ep, raw, otp) /\ UNCHANGED ui
    \/ Sweep /\ UNCHANGED ui
    \/ Tick(maxT) /\ UNCHANGED ui

(* ---------------- delegated SMS flow (2Factor) ---------------- *)
\* the provider's Details text arrives as a string: a sequence of characters
RECURSIVE Str(_)
Str(s) == IF s = <<>> THEN "" ELSE s[1] \o Str(Tail(s))

\* String.prototype.includes
Includes(s, sub) ==
    \E i \in 0..(Len(s) - Len(sub)) : SubSeq(s, i + 1, i + Len(sub)) = sub

OTP_Matched == <<"O", "T", "P", " ", "M", "a", "t", "c", "h", "e", "d">>

OTP_Mismatch == <<"O", "T", "P", " ", "M", "i", "s", "m", "a", "t", "c", "h">>

OTP_not_matched == <<"O", "T", "P", " ", "n", "o", "t", " ", "m", "a", "t", "c", "h", "e", "d">>

OTP_Expired == <<"O", "T", "P", " ", "E", "x", "p", "i", "r", "e", "d">>

No_OTP_request == <<"N", "o", " ", "O", "T", "P", " ", "r", "e", "q", "u", "e", "s", "t">>

DetailsNoRequest == <<"N", "o", " ", "O", "T", "P", " ", "r", "e", "q", "u", "e", "s", "t", " ", "f", "o", "u", "n", "d">>

DetailsUnknown == <<"I", "n", "v", "a", "l", "i", "d", " ", "A", "P", "I", " ", "K", "e", "y">>

DetailsSession == <<"s", "1">>

\* data of the provider's answer: null, or an object with Status and Details
\* (Details <<>> when absent)
SmsBody(st, d) == [isNull |-> FALSE, Status |-> st, Details |-> d]

NullBody == [isNull |-> TRUE, Status |-> "", Details |-> <<>>]

SmsOutcomes ==
    {[kind |-> "resolved", status |-> 200, data |-> b] :
        b \in {SmsBody("Success", OTP_Matched), SmsBody("Success", DetailsSession),
               SmsBody("Success", OTP_Expired), SmsBody("Error", OTP_Expired),
               SmsBody("Error", <<>>), NullBody}}
    \cup {[kind |-> "httpError", status |-> 400, data |-> SmsBody("Error", d)] :
            d \in {OTP_Mismatch, OTP_Expired, DetailsNoRequest, <<>>}}
    \cup {[kind |-> "httpError", status |-> 401, data |-> SmsBody("Error", DetailsUnknown)]}
    \cup {[kind |-> "noResponse", status |-> 0, data |-> NullBody]}

\* error.response.data?.Details || fallback, response.data.Details || fallback
DetailsOr(data, fallback) ==
    IF data.isNull \/ data.Details = <<>> THEN fallback ELSE Str(data.Details)

\* reading response.data.Status of a null body throws a TypeError inside the
\* try block: an error with neither response nor request
SmsInternalError(m, verified) ==
    [storage |-> m, status |-> 500, success |-> FALSE, verified |-> verified,
     message |-> "Internal server error. Please try again later."]

\* POST /api/send-otp after the await
SmsSend(m, req, o) ==
    IF o.kind = "resolved"
    THEN IF o.data.isNull THEN SmsInternalError(m, "absent")
         ELSE IF o.data.Status = "Success"
         THEN [storage |-> m, status |-> 200, success |-> TRUE, verified |-> "absent",
               message |-> "OTP sent successfully! Please check your phone."]
         ELSE [storage |-> m, status |-> 400, success |-> FALSE, verified |-> "absent",
               message |-> DetailsOr(o.data, "Failed to send OTP. Please try again.")]
    ELSE IF o.kind = "httpError"
    THEN [storage |-> m, status |-> o.status, success |-> FALSE, verified |-> "absent",
          message |-> DetailsOr(o.data, "Failed to send OTP. Please try again.")]
    ELSE [storage |-> m, status |-> 503, success |-> FALSE, verified |-> "absent",
          message |-> "Unable to connect to SMS service. Please try again later."]

SmsVerify_LocalFallback(m, req, o) ==
    LET local == verifyStoredOTP(m, req.phone, req.otp, 0)
    IN  IF local.valid
        THEN [storage |-> local.storage, status |-> 200, success |-> TRUE, verified |-> "true",
              message |-> "OTP verified successfully! Logging you in..."]
        ELSE [storage |-> m, status |-> 400, success |-> FALSE, verified |-> "false",
              message |-> "Invalid OTP. Please check and try again."]

SmsVerify_AnySuccessStatus(m, req, o) ==
    IF o.kind = "resolved" /\ ~o.data.isNull /\ o.data.Status = "Success"
    THEN [storage |-> m, status |-> 200, success |-> TRUE, verified |-> "true",
          message |-> "OTP verified successfully! Logging you in..."]
    ELSE IF o.kind = "noResponse"
    THEN [storage |-> m, status |-> 503, success |-> FALSE, verified |-> "false",
          message |-> "Unable to connect to verification service. Please try again later."]
    ELSE [storage |-> m, status |-> 400, success |-> FALSE, verified |-> "false",
          message |-> "Invalid OTP. Please check and try again."]

\* POST /api/verify-otp after the await
SmsVerify(m, req, o) ==
    IF o.kind = "resolved"
    THEN IF o.data.isNull THEN SmsInternalError(m, "false")
         ELSE IF o.data.Status = "Success" /\ o.data.Details = OTP_Matched
         THEN [storage |-> m, status |-> 200, success |-> TRUE, verified |-> "true",
               message |-> "OTP verified successfully! Logging you in..."]
         ELSE [storage |-> m, status |-> 400, success |-> FALSE, verified |-> "false",
               message |-> "Invalid OTP. Please check and try again."]
    ELSE IF o.kind = "httpError"
    THEN LET errorDetails == IF o.data.isNull THEN <<>> ELSE o.data.Details
         IN  IF Includes(errorDetails, OTP_Mismatch) \/ Includes(errorDetails, OTP_not_matched)
             THEN [storage |-> m, status |-> 400, success |-> FALSE, verified |-> "false",
                   message |-> "Invalid OTP. Please check and try again."]
             ELSE IF Includes(errorDetails, OTP_Expired)
             THEN [storage |-> m, status |-> 400, success |-> FALSE, verified |-> "false",
                   message |-> "OTP has expired. Please request a new OTP."]
             ELSE IF Includes(errorDetails, No_OTP_request)
             THEN [storage |-> m, status |-> 400, success |-> FALSE, verified |-> "false",
                   message |-> "No OTP was sent to this number. Please request OTP first."]
             ELSE [storage |-> m, status |-> o.status, success |-> FALSE, verified |-> "false",
                   message |-> DetailsOr(o.data, "OTP verification failed. Please try again.")]
    ELSE [storage |-> m, status |-> 503, success |-> FALSE, verified |-> "false",
          message |-> "Unable to connect to verification service. Please try again later."]

\* POST /api/resend-otp after the await
SmsResend(m, req, o) ==
    IF o.kind = "resolved" /\ ~o.data.isNull
    THEN IF o.data.Status = "Success"
         THEN [storage |-> m, status |-> 200, success |-> TRUE, verified |-> "absent",
               message |-> "New OTP sent successfully!"]
         ELSE [storage |-> m, status |-> 400, success |-> FALSE, verified |-> "absent",
               message |-> DetailsOr(o.data, "Failed to resend OTP. Please try again.")]
    ELSE [storage |-> m, status |-> 500, success |-> FALSE, verified |-> "absent",
          message |-> "Failed to resend OTP. Please try again later."]

SmsHandleReply(m, req, o) ==
    IF req.route = "send-otp" THEN SmsSend(m, req, o)
    ELSE IF req.route = "verify-otp" THEN SmsVerify(m, req, o)
    ELSE SmsResend(m, req, o)

SmsRoutes == {"send-otp", "verify-otp", "resend-otp"}

SmsReject(route, phone, verified, message) ==
    /\ last' = [NoEvent EXCEPT !.op = "reject", !.ep = "sms", !.route = route,
                               !.phone = phone, !.status = 400, !.verified = verified,
                               !.message = message]
    /\ UNCHANGED <<otpStorage, now, sweepDue, inflight, latest, sends>>

\* a request to /api/send-otp, /api/verify-otp or /api/resend-otp, up to the
\* await of the provider call
SmsRequest(route, raw, otp) ==
    IF route = "verify-otp"
    THEN IF raw = <<>> \/ otp = <<>>
         THEN SmsReject(route, <<>>, "false", "Phone number and OTP are required")
         ELSE IF ~(AllDigits(otp) /\ Len(otp) \in 4..6)
         THEN SmsReject(route, formatPhoneNumber(raw), "false",
                        "Invalid OTP format. Please enter a valid OTP.")
         ELSE /\ Pending < MaxInflight
              /\ inflight' = inflight (+) SetToBag({[ep |-> "sms", route |-> route, raw |-> raw,
                                                        phone |-> formatPhoneNumber(raw), otp |-> otp]})
              /\ last' = [NoEvent EXCEPT !.op = "called", !.ep = "sms", !.route = route,
                                         !.phone = formatPhoneNumber(raw), !.otp = otp]
              /\ UNCHANGED <<otpStorage, now, sweepDue, latest, sends>>
    ELSE IF raw = <<>>
         THEN SmsReject(route, <<>>, "absent", "Phone number is required")
         ELSE IF ~validatePhoneNumber(formatPhoneNumber(raw))
         THEN SmsReject(route, formatPhoneNumber(raw), "absent",
                        IF route = "send-otp"
                        THEN "Invalid phone number. Please enter a valid 10-digit Indian mobile number."
                        ELSE "Invalid phone number.")
         ELSE /\ Pending < MaxInflight
              /\ inflight' = inflight (+) SetToBag({[ep |-> "sms", route |-> route, raw |-> raw,
                                                        phone |-> formatPhoneNumber(raw), otp |-> <<>>]})
              /\ last' = [NoEvent EXCEPT !.op = "called", !.ep = "sms", !.route = route,
                                         !.phone = formatPhoneNumber(raw)]
              /\ UNCHANGED <<otpStorage, now, sweepDue, latest, sends>>

\* the provider call of the suspended SMS request req settles with outcome o
\* and the handler responds
SmsReply(req, o) ==
    /\ BagIn(req, inflight)
    /\ req.ep = "sms"
    /\ LET r == SmsHandleReply(otpStorage, req, o)
       IN  /\ otpStorage' = r.storage
           /\ last' = [NoEvent EXCEPT !.op = "reply", !.ep = "sms", !.route = req.route,
                          !.phone = req.phone, !.otp = req.otp, !.outcome = o,
                          !.status = r.status, !.success = r.success,
                          !.verified = r.verified, !.message = r.message]
    /\ inflight' = inflight (-) SetToBag({req})
    /\ UNCHANGED <<now, sweepDue, latest, sends>>

(* ---------------- a body whose phoneNumber is not a string ---------------- *)
\* phoneNumber is a JSON number: it is truthy, and formatPhoneNumber throws a
\* TypeError (phoneNumber.replace is not a function) before any store or
\* provider call, inside the handler's try block.  The catch of the resend and
\* verify handlers answers 500; the catch of the SMS send and verify handlers
\* finds neither error.response nor error.request and answers 500; the catch of
\* the two WhatsApp send handlers calls formatPhoneNumber again and throws
\* itself, so the async handler's promise is rejected: the framework either
\* drops it (no response is ever sent) or forwards it to the error middleware.
NonStringPhone(ep, route, forwarded) ==
    LET verified == IF route = "verify-otp" THEN "false" ELSE "absent"
        answer(status, message) ==
            [NoEvent EXCEPT !.op = "threw", !.ep = ep, !.route = route,
                            !.status = status, !.verified = verified, !.message = message]
    IN  /\ last' =
              IF route = "resend-otp"
              THEN answer(500, IF ep = "sms" THEN "Failed to resend OTP. Please try again later."
                               ELSE "Failed to resend WhatsApp OTP.")
              ELSE IF route = "verify-otp" \/ ep = "sms"
              THEN answer(500, "Internal server error. Please try again later.")
              ELSE IF forwarded
              THEN [NoEvent EXCEPT !.op = "threw", !.ep = ep, !.route = route,
                                   !.status = 500, !.message = "Something went wrong!"]
              ELSE [NoEvent EXCEPT !.op = "threw", !.ep = ep, !.route = route]
        /\ UNCHANGED <<otpStorage, now, sweepDue, inflight, latest, sends>>

(* ---- the OTP lifecycle: one phone, two codes, the clock through expiry ---- *)
\* Up to the await a resend runs the code of a send, and after it a resend
\* either keeps the record or deletes it, as a send does on Delivered and on
\* Unreachable: the send route alone produces every store a resend can.
Delivered == [kind |-> "resolved", status |-> 200, data |-> OkBody]

Unreachable == [kind |-> "noResponse", status |-> 0, data |-> EmptyBody]

NextLifecycle ==
    NextOver({"whatsapp"}, {"send-otp"}, {PhoneAPrefixed}, RandSamples, 0..MaxSkew,
             {Delivered, Unreachable}, OtpInputs, MaxTime)

SpecLifecycle == Init /\ [][NextLifecycle]_vars

(* ---- delivery outcomes: every handler and provider answer, a short clock ---- *)
\* the server has been idle since it started and the next sweep is about due
InitDelivery ==
    /\ otpStorage = EmptyMap
    /\ now = 0
    /\ sweepDue = DeliveryMaxTime
    /\ inflight = EmptyBag
    /\ last = NoEvent
    /\ latest = [p \in ValidKeys |-> NoneStored]
    /\ sends = 0
    /\ ui = NoBrowser

NextDelivery ==
    NextOver(Endpoints, Routes, {PhoneAPrefixed, PhoneBad}, {0}, {0},
             ProviderOutcomes, {generateOTP(0)}, DeliveryMaxTime)

SpecDelivery == InitDelivery /\ [][NextDelivery]_vars

(* ---- two phones holding the same code: one channel, the clock through expiry ---- *)
NextTwoPhones ==
    NextOver({"whatsapp"}, {"send-otp"}, {PhoneAPrefixed, PhoneB}, {0}, {0},
             {Delivered, Unreachable}, {generateOTP(0), generateOTP(RandDen - 1)}, MaxTime)

SpecTwoPhones == Init /\ [][NextTwoPhones]_vars

(* ---- all nine endpoints: the delegated SMS flow beside the local store ---- *)
SmsRawPhones == {PhoneAPrefixed, PhoneBad, <<>>}

SmsOtpInputs == {generateOTP(0), <<"1", "2">>, <<>>}

\* the server has run for OTP_EXPIRY_MINUTES or a minute more: a code sent and
\* delivered at time 0 is at the last minute of its life or just past it, and
\* the first sweep has run and kept it
InitSms ==
    /\ otpStorage = storeOTP(EmptyMap, formatPhoneNumber(PhoneAPrefixed), generateOTP(0), 0, 0)
    /\ now \in {OTP_EXPIRY_MINUTES, OTP_EXPIRY_MINUTES + 1}
    /\ sweepDue = SWEEP_INTERVAL + SWEEP_INTERVAL
    /\ inflight = EmptyBag
    /\ last = [NoEvent EXCEPT !.op = "tick"]
    /\ latest = [p \in ValidKeys |->
                   IF p = formatPhoneNumber(PhoneAPrefixed)
                   THEN [otp |-> generateOTP(0), prev |-> <<>>, verified |-> 0]
                   ELSE NoneStored]
    /\ sends = 1
    /\ ui = NoBrowser

\* the request handlers alone, at those two instants
NextSms ==
    \/ /\ Pending < SmsMaxInflight
       /\ \/ \E route \in Routes, raw \in SmsRawPhones : SmsRequest(route, raw, <<>>)
          \/ \E raw \in SmsRawPhones, otp \in SmsOtpInputs : SmsRequest("verify-otp", raw, otp)
       /\ UNCHANGED ui
    \/ \E req \in BagToSet(inflight), o \in SmsOutcomes :
          SmsReply(req, o) /\ UNCHANGED ui
    \/ /\ Pending < SmsMaxInflight
       /\ \E ep \in Endpoints, route \in Routes, raw \in SmsRawPhones :
             SendRequest(ep, route, raw, 0, 0)
       /\ UNCHANGED ui
    \/ \E req \in BagToSet(inflight), o \in ProviderOutcomes :
          req.ep \in Endpoints /\ ProviderReply(req, o) /\ UNCHANGED ui
    \/ \E ep \in Endpoints, raw \in SmsRawPhones, otp \in OtpInputs :
          VerifyOtp(ep, raw, otp) /\ UNCHANGED ui

SpecSms == InitSms /\ [][NextSms]_vars

(* ---- abandoned records: the timer fires on time, the clock keeps running ---- *)
\* every record is stored by MaxTime, expires OTP_EXPIRY_MINUTES after its second
\* clock read, and meets a sweep within SWEEP_INTERVAL of that
EvictHorizon == MaxTime + MaxSkew + OTP_EXPIRY_MINUTES + SWEEP_INTERVAL

\* a minute passes; the interval timer's callback runs when it is due, before
\* the clock is read again
TickOnTime ==
    /\ now < sweepDue
    /\ now < EvictHorizon
    /\ now' = now + 1
    /\ last' = [NoEvent EXCEPT !.op = "tick"]
    /\ UNCHANGED <<otpStorage, sweepDue, inflight, latest, sends>>

NextEvict ==
    \/ SendRequest("whatsapp", "send-otp", PhoneAPrefixed, 0, 0) /\ UNCHANGED ui
    \/ \E req \in BagToSet(inflight) : ProviderReply(req, Delivered) /\ UNCHANGED ui
    \/ VerifyOtp("whatsapp", PhoneAPrefixed, generateOTP(RandDen - 1)) /\ UNCHANGED ui
    \/ Sweep /\ UNCHANGED ui
    \/ TickOnTime /\ UNCHANGED ui

\* setInterval keeps firing and time keeps passing; requests may stop coming
SpecEvict ==
    /\ Init /\ [][NextEvict]_vars
    /\ WF_vars(Sweep /\ UNCHANGED ui) /\ WF_vars(TickOnTime /\ UNCHANGED ui)

(* ---- the random source: one send to an idle server, every draw ---- *)
NextGenerate ==
    \/ /\ otpStorage = EmptyMap
       /\ inflight = EmptyBag
       /\ \E k \in 0..(RandDen - 1) :
             SendRequest("whatsapp", "send-otp", PhoneAPrefixed, k, 0)
       /\ UNCHANGED ui
    \/ \E req \in BagToSet(inflight) : ProviderReply(req, Delivered) /\ UNCHANGED ui

SpecGenerate == Init /\ [][NextGenerate]_vars

(* ---- raw phone inputs: prefixes, separators, wrong lengths, wrong digits ---- *)
KeyRawPhones ==
    {PhoneAPrefixed, PhoneBad, <<>>,
     <<"9", "1", "9", "8", "7", "6", "5", "4", "3", "2", "1", "0">>,
     <<"(", "9", "8", "7", ")", " ", "6", "5", "4", "-", "3", "2", "1", "0">>,
     <<"9", "1", "9", "8", "7", "6", "5", "4", "3", "2">>,
     <<"+", "9", "1", "+", "9", "1", "9", "8", "7", "6", "5", "4", "3", "2", "1", "0">>,
     <<"0", "9", "8", "7", "6", "5", "4", "3", "2", "1", "0">>,
     <<"9", "1", "9", "8", "7", "6", "5", "4", "3", "2", "1">>,
     <<"5", "8", "7", "6", "5", "4", "3", "2", "1", "0">>}

NextInputs ==
    \/ /\ Pending < InputsMaxInflight
       /\ \E ep \in Endpoints, route \in Routes, raw \in KeyRawPhones :
             SendRequest(ep, route, raw, 0, 0)
       /\ UNCHANGED ui
    \/ \E req \in BagToSet(inflight), o \in {Delivered, Unreachable} :
          ProviderReply(req, o) /\ UNCHANGED ui
    \/ \E raw \in KeyRawPhones : VerifyOtp("whatsapp", raw, generateOTP(0)) /\ UNCHANGED ui
    \/ \E ep \in Endpoints \cup {"sms"}, route \in SmsRoutes, forwarded \in BOOLEAN :
          NonStringPhone(ep, route, forwarded) /\ UNCHANGED ui

SpecInputs == Init /\ [][NextInputs]_vars

(* ---- both local channels for one phone, the clock through expiry ---- *)
NextAuth ==
    NextOver(Endpoints, {"send-otp"}, {PhoneAPrefixed}, RandSamples, {0},
             {Delivered, Unreachable}, {generateOTP(k) : k \in RandSamples}, MaxTime)

SpecAuth == Init /\ [][NextAuth]_vars

(* ---- both local channels, send and resend, for one phone: a short clock ---- *)
NextChannels ==
    NextOver(Endpoints, Routes, {PhoneAPrefixed}, RandSamples, {0},
             {Delivered, Unreachable}, {generateOTP(k) : k \in RandSamples}, DeliveryMaxTime)

SpecChannels == InitDelivery /\ [][NextChannels]_vars

(* ---- otp values of every shape against one stored code, around its expiry ---- *)
FormatOtps ==
    {generateOTP(0), <<>>,
     <<"1", "2", "3">>, <<"1", "0", "0", "0", "0">>, <<"1", "0", "0", "0", "0", "0">>,
     <<"1", "0", "0", "0", "0", "0", "0">>, <<"1", "0", "0", "O">>,
     JsonNumber(1000), JsonNumber(0), JsonNumber(12), JsonNumber(10000)}

\* the verify handlers at the two instants of InitSms, around the expiry of the
\* code stored at time 0, and a later send that stores a fresh one
NextFormat ==
    \/ /\ Pending < InputsMaxInflight
       /\ \E ep \in Endpoints : SendRequest(ep, "send-otp", PhoneAPrefixed, 0, 0)
       /\ UNCHANGED ui
    \/ \E req \in BagToSet(inflight) : ProviderReply(req, Delivered) /\ UNCHANGED ui
    \/ \E ep \in Endpoints, raw \in {PhoneAPrefixed, <<>>}, otp \in FormatOtps :
          VerifyOtp(ep, raw, otp) /\ UNCHANGED ui

SpecFormat == InitSms /\ [][NextFormat]_vars

(* ---------------- the browser: App, Login, WhatsAppLogin, Dashboard ---------------- *)
\* ui is one browser tab.  localStorage maps keys to strings; a React component
\* that is not mounted has no state; an axios call is a request on its way to
\* the server ("sent"), then a handler of the server suspended at its provider
\* ("provider"), and its continuation runs when the server responds.
LoginPaths == {"/", "/login/whatsapp", "/login/whatsapp-meta"}

\* Login posts to API_URL, WhatsAppLogin to API_URLS[apiType]
ApiOf(path) ==
    IF path = "/" THEN "sms"
    ELSE IF path = "/login/whatsapp" THEN "whatsapp" ELSE "whatsapp-meta"

\* useState(['', '', '', '', '', '']) in Login, useState(['', '', '', '']) in WhatsAppLogin
OtpBoxes(path) == IF path = "/" THEN 6 ELSE 4

BlankOtp(path) == [i \in 1..OtpBoxes(path) |-> ""]

\* otp.join('')
Join(otp) == SelectSeq(otp, LAMBDA c : c # "")

\* value.replace(/\D/g, '')
DigitsOf(text) == SelectSeq(text, LAMBDA c : c \in Digit)

\* String.prototype.slice(0, n)
Slice(text, n) == SubSeq(text, 1, Min(n, Len(text)))

TrueText == <<"t", "r", "u", "e">>

NoForm == [step |-> "unmounted"]

FreshForm(path) ==
    [step |-> "phone", phoneNumber |-> <<>>, selectedCountry |-> "+91",
     otp |-> BlankOtp(path), loading |-> FALSE, error |-> "", success |-> "",
     resendTimer |-> 0]

NoReq == [ep |-> "", route |-> "", raw |-> <<>>, phone |-> <<>>, otp |-> <<>>]

NoRequest ==
    [handler |-> "none", stage |-> "", api |-> "", phone |-> <<>>, otp |-> <<>>,
     req |-> NoReq, mounted |-> FALSE]

\* the tab right after the page is loaded at path: App is mounted, its effect
\* has not run yet
Browser(localStorage, path) ==
    [open |-> TRUE, localStorage |-> localStorage, isAuthenticated |-> FALSE,
     userPhone |-> <<>>, isLoading |-> TRUE, path |-> path, form |-> NoForm,
     awaiting |-> NoRequest, loginTimers |-> <<>>, successTimers |-> 0]

\* the element App's <Routes> renders for a path, following <Navigate replace>
Resolve(path, isAuthenticated) ==
    IF isAuthenticated THEN "/dashboard"
    ELSE IF path \in LoginPaths THEN path ELSE "/"

\* App re-renders after u replaced before: a login page that stays on screen
\* keeps its state, one that appears is mounted afresh, one that disappears
\* loses its state and its timers' effects, and a request it was awaiting will
\* settle without it
Rendered(u, before) ==
    LET path == Resolve(u.path, u.isAuthenticated)
        stays == before.form.step # "unmounted" /\ path = before.path
    IN  [u EXCEPT !.path = path,
                  !.form = IF path \notin LoginPaths THEN NoForm
                           ELSE IF stays THEN u.form ELSE FreshForm(path),
                  !.awaiting = IF stays THEN @ ELSE [@ EXCEPT !.mounted = FALSE],
                  !.successTimers = IF stays THEN @ ELSE 0]

\* a step of the browser alone: the server takes none
ServerIdle ==
    /\ last' = [NoEvent EXCEPT !.op = "browser"]
    /\ UNCHANGED <<otpStorage, now, sweepDue, inflight, latest, sends>>

Mounted == ui.form.step # "unmounted"

\* App: the effect that runs once after the first render
checkAuth ==
    /\ ui.isLoading
    /\ LET stored == ui.localStorage
           authStatus == IF "isAuthenticated" \in DOMAIN stored
                         THEN stored["isAuthenticated"] ELSE <<>>
           phone == IF "userPhone" \in DOMAIN stored THEN stored["userPhone"] ELSE <<>>
           ok == authStatus = TrueText /\ phone # <<>>
       IN  ui' = Rendered([ui EXCEPT !.isAuthenticated = ok,
                                     !.userPhone = IF ok THEN phone ELSE <<>>,
                                     !.isLoading = FALSE], ui)
    /\ ServerIdle

\* the user, no request under way, loads the application again at some path:
\* every component state and timer is gone, localStorage stays
OpenUrl(path) ==
    /\ ~ui.isLoading
    /\ ui.awaiting.handler = "none"
    /\ ui' = Browser(ui.localStorage, path)
    /\ ServerIdle

\* App.handleLoginSuccess
handleLoginSuccess(u, phoneNumber) ==
    [u EXCEPT !.isAuthenticated = TRUE,
              !.userPhone = phoneNumber,
              !.localStorage = MapSet(MapSet(@, "isAuthenticated", TrueText),
                                      "userPhone", phoneNumber)]

\* a handleLogout that resets the state and leaves localStorage as it is
handleLogout_KeepStorage(u) ==
    [u EXCEPT !.isAuthenticated = FALSE, !.userPhone = <<>>]

\* App.handleLogout
handleLogout(u) ==
    [u EXCEPT !.isAuthenticated = FALSE,
              !.userPhone = <<>>,
              !.localStorage = MapDelete(MapDelete(@, "isAuthenticated"), "userPhone")]

\* Dashboard.handleLogout: onLogout(); navigate('/')
DashboardLogout ==
    /\ ~ui.isLoading
    /\ ui.path = "/dashboard"
    /\ ui.isAuthenticated
    /\ ui' = Rendered([handleLogout(ui) EXCEPT !.path = "/"], ui)
    /\ ServerIdle

InPhoneStep == Mounted /\ ui.form.step = "phone" /\ ~ui.form.loading

InOtpStep == Mounted /\ ui.form.step = "otp" /\ ~ui.form.loading

handlePhoneChange(value) ==
    /\ InPhoneStep
    /\ ui' = [ui EXCEPT !.form.phoneNumber = Slice(DigitsOf(value), 10),
                        !.form.error = ""]
    /\ ServerIdle

handleCountrySelect(code) ==
    /\ InPhoneStep
    /\ ui' = [ui EXCEPT !.form.selectedCountry = code]
    /\ ServerIdle

Await(handler, otp) ==
    [handler |-> handler, stage |-> "sent", api |-> ApiOf(ui.path),
     phone |-> ui.form.phoneNumber, otp |-> otp, req |-> NoReq, mounted |-> TRUE]

\* handleSendOtp up to its await; the submit button is disabled unless ten
\* digits are entered
handleSendOtp ==
    /\ InPhoneStep
    /\ Len(ui.form.phoneNumber) = 10
    /\ ui.awaiting.handler = "none"
    /\ ui.successTimers < MaxTimers
    /\ ui' = IF Len(ui.form.phoneNumber) # 10
             THEN [ui EXCEPT !.form.error = "Please enter a valid 10-digit phone number"]
             ELSE IF ui.form.selectedCountry # "+91"
             THEN [ui EXCEPT !.form.error =
                      "Currently only Indian phone numbers (+91) are supported"]
             ELSE [ui EXCEPT !.form.loading = TRUE, !.form.error = "",
                             !.awaiting = Await("send", <<>>)]
    /\ ServerIdle

handleOtpChange(index, value) ==
    /\ InOtpStep
    /\ ui' = IF value # "" /\ value \notin Digit THEN ui
             ELSE [ui EXCEPT !.form.otp[index + 1] = value, !.form.error = ""]
    /\ ServerIdle

\* the paste handler of the first box
handleOtpPaste(text) ==
    /\ InOtpStep
    /\ LET boxes == OtpBoxes(ui.path)
           pastedData == Slice(DigitsOf(text), boxes)
       IN  ui' = IF Len(pastedData) > 0
                 THEN [ui EXCEPT !.form.otp =
                          [i \in 1..boxes |-> IF i <= Len(pastedData)
                                              THEN pastedData[i] ELSE @[i]]]
                 ELSE ui
    /\ ServerIdle

\* handleVerifyOtp up to its await; the submit button is disabled unless every
\* box is filled
handleVerifyOtp ==
    /\ InOtpStep
    /\ Len(Join(ui.form.otp)) = OtpBoxes(ui.path)
    /\ ui.awaiting.handler = "none"
    /\ Len(ui.loginTimers) < MaxTimers
    /\ LET otpValue == Join(ui.form.otp)
       IN  ui' = IF Len(otpValue) # OtpBoxes(ui.path)
                 THEN [ui EXCEPT !.form.error =
                          IF ui.path = "/" THEN "Please enter the complete 6-digit OTP"
                          ELSE "Please enter the complete 4-digit OTP"]
                 ELSE [ui EXCEPT !.form.loading = TRUE, !.form.error = "",
                                 !.awaiting = Await("verify", otpValue)]
    /\ ServerIdle

\* a handleResendOtp without its first line, if (resendTimer > 0) return
handleResendOtp_NoThrottle ==
    /\ InOtpStep
    /\ ui.awaiting.handler = "none"
    /\ ui.successTimers < MaxTimers
    /\ ui' = [ui EXCEPT !.form.loading = TRUE, !.form.error = "",
                        !.awaiting = Await("resend", <<>>)]
    /\ ServerIdle

\* handleResendOtp up to its await
handleResendOtp ==
    /\ InOtpStep
    /\ ui.awaiting.handler = "none"
    /\ ui.successTimers < MaxTimers
    /\ ui' = IF ui.form.resendTimer > 0 THEN ui
             ELSE [ui EXCEPT !.form.loading = TRUE, !.form.error = "",
                             !.awaiting = Await("resend", <<>>)]
    /\ ServerIdle

handleBack ==
    /\ InOtpStep
    /\ ui' = [ui EXCEPT !.form.step = "phone", !.form.otp = BlankOtp(ui.path),
                        !.form.error = "", !.form.success = ""]
    /\ ServerIdle

\* WhatsAppLogin: navigate('/'); the button is not disabled while loading
handleBackToSMS ==
    /\ Mounted
    /\ ui.path # "/"
    /\ ui' = Rendered([ui EXCEPT !.path = "/"], ui)
    /\ ServerIdle

\* what axios hands to the handler: the server's response, or an error without
\* one
Answer(l) ==
    [kind |-> "response", status |-> l.status, success |-> l.success,
     verified |-> (l.verified = "true"), message |-> l.message]

NoAnswer ==
    [kind |-> "network", status |-> 0, success |-> FALSE, verified |-> FALSE,
     message |-> ""]

\* axios resolves on a 2xx status
Resolved(r) == r.kind = "response" /\ r.status \in 200..299

\* err.response?.data?.message || fallback
ErrorText(r, fallback) == IF r.kind = "response" /\ r.message # "" THEN r.message ELSE fallback

\* the rest of handleSendOtp: try, catch, finally
AfterSend(u, r) ==
    IF ~u.awaiting.mounted THEN u
    ELSE IF Resolved(r)
    THEN IF r.success
         THEN [u EXCEPT !.form.success = IF u.awaiting.api = "sms"
                                         THEN "OTP sent successfully!"
                                         ELSE "OTP sent to your WhatsApp!",
                        !.form.step = "otp",
                        !.form.resendTimer = RESEND_SECONDS,
                        !.successTimers = @ + 1,
                        !.form.loading = FALSE]
         ELSE [u EXCEPT !.form.loading = FALSE]
    ELSE [u EXCEPT !.form.error = ErrorText(r, "Failed to send OTP. Please try again."),
                   !.form.loading = FALSE]

\* a handleVerifyOtp whose catch block leaves the entered digits in place
AfterVerify_KeepDigits(u, r) ==
    IF Resolved(r)
    THEN IF r.success /\ r.verified
         THEN LET stored == IF u.awaiting.api = "sms" THEN u.localStorage
                            ELSE MapSet(u.localStorage, "authMethod", u.awaiting.api)
                  timers == Append(u.loginTimers, u.awaiting.phone)
              IN  IF u.awaiting.mounted
                  THEN [u EXCEPT !.form.success = "Login successful! Redirecting...",
                                 !.localStorage = stored,
                                 !.loginTimers = timers,
                                 !.form.loading = FALSE]
                  ELSE [u EXCEPT !.localStorage = stored, !.loginTimers = timers]
         ELSE IF u.awaiting.mounted THEN [u EXCEPT !.form.loading = FALSE] ELSE u
    ELSE IF u.awaiting.mounted
    THEN [u EXCEPT !.form.error = ErrorText(r, "Invalid OTP. Please try again."),
                   !.form.loading = FALSE]
    ELSE u

\* the rest of handleVerifyOtp
AfterVerify(u, r) ==
    IF Resolved(r)
    THEN IF r.success /\ r.verified
         THEN LET stored == IF u.awaiting.api = "sms" THEN u.localStorage
                            ELSE MapSet(u.localStorage, "authMethod", u.awaiting.api)
                  timers == Append(u.loginTimers, u.awaiting.phone)
              IN  IF u.awaiting.mounted
                  THEN [u EXCEPT !.form.success = "Login successful! Redirecting...",
                                 !.localStorage = stored,
                                 !.loginTimers = timers,
                                 !.form.loading = FALSE]
                  ELSE [u EXCEPT !.localStorage = stored, !.loginTimers = timers]
         ELSE IF u.awaiting.mounted THEN [u EXCEPT !.form.loading = FALSE] ELSE u
    ELSE IF u.awaiting.mounted
    THEN [u EXCEPT !.form.error = ErrorText(r, "Invalid OTP. Please try again."),
                   !.form.otp = BlankOtp(u.path),
                   !.form.loading = FALSE]
    ELSE u

\* the rest of handleResendOtp
AfterResend(u, r) ==
    IF ~u.awaiting.mounted THEN u
    ELSE IF Resolved(r)
    THEN IF r.success
         THEN [u EXCEPT !.form.success = IF u.awaiting.api = "sms" THEN "New OTP sent!"
                                         ELSE "New OTP sent to WhatsApp!",
                        !.form.otp = BlankOtp(u.path),
                        !.form.resendTimer = RESEND_SECONDS,
                        !.successTimers = @ + 1,
                        !.form.loading = FALSE]
         ELSE [u EXCEPT !.form.loading = FALSE]
    ELSE [u EXCEPT !.form.error = ErrorText(r, "Failed to resend OTP"),
                   !.form.loading = FALSE]

\* the awaited call settles with r and the handler runs to its end
Settle(u, r) ==
    LET done == IF u.awaiting.handler = "send" THEN AfterSend(u, r)
                ELSE IF u.awaiting.handler = "verify" THEN AfterVerify(u, r)
                ELSE AfterResend(u, r)
    IN  [done EXCEPT !.awaiting = NoRequest]

RouteOf(handler) ==
    IF handler = "send" THEN "send-otp"
    ELSE IF handler = "verify" THEN "verify-otp" ELSE "resend-otp"

\* the request reaches the server and its handler runs up to its first await,
\* or to its response if it has none
RequestArrives ==
    /\ ui.awaiting.handler # "none"
    /\ ui.awaiting.stage = "sent"
    /\ LET a == ui.awaiting
       IN  /\ IF a.api = "sms" THEN SmsRequest(RouteOf(a.handler), a.phone, a.otp)
              ELSE IF a.handler = "verify" THEN VerifyOtp(a.api, a.phone, a.otp)
              ELSE SendRequest(a.api, RouteOf(a.handler), a.phone, 0, 0)
           /\ ui' = IF last'.op \in {"stored", "called"}
                    THEN [ui EXCEPT !.awaiting.stage = "provider",
                                    !.awaiting.req =
                                        [ep |-> a.api, route |-> RouteOf(a.handler),
                                         raw |-> a.phone, phone |-> last'.phone,
                                         otp |-> last'.otp]]
                    ELSE Settle(ui, Answer(last'))

\* the provider call of the server's handler settles with outcome o, the
\* server responds and the response reaches the browser
ResponseArrives(o) ==
    /\ ui.awaiting.handler # "none"
    /\ ui.awaiting.stage = "provider"
    /\ IF ui.awaiting.api = "sms" THEN SmsReply(ui.awaiting.req, o)
       ELSE ProviderReply(ui.awaiting.req, o)
    /\ ui' = Settle(ui, Answer(last'))

\* the request never reaches the server
NetworkError ==
    /\ ui.awaiting.handler # "none"
    /\ ui.awaiting.stage = "sent"
    /\ ui' = Settle(ui, NoAnswer)
    /\ ServerIdle

\* the timeout of the countdown effect
ResendTimerFires ==
    /\ Mounted
    /\ ui.form.resendTimer > 0
    /\ ui' = [ui EXCEPT !.form.resendTimer = @ - 1]
    /\ ServerIdle

\* setTimeout(() => setSuccess(''), 3000)
SuccessTimerFires ==
    /\ ui.successTimers > 0
    /\ ui' = [ui EXCEPT !.successTimers = @ - 1, !.form.success = ""]
    /\ ServerIdle

\* setTimeout(() => { onLoginSuccess(phoneNumber); navigate('/dashboard') }, 1000)
LoginTimerFires ==
    /\ ui.loginTimers # <<>>
    /\ ui' = Rendered([handleLoginSuccess(ui, Head(ui.loginTimers)) EXCEPT
                           !.path = "/dashboard", !.loginTimers = Tail(@)], ui)
    /\ ServerIdle

(* ---- the React application in one tab, in front of the server ---- *)
\* what the tab's localStorage may hold when the application is opened: nothing,
\* a session saved by an earlier login, or the flag alone
StoredSession == MapSet(MapSet(EmptyMap, "isAuthenticated", TrueText),
                        "userPhone", formatPhoneNumber(PhoneAPrefixed))

StoredFlagOnly == MapSet(EmptyMap, "isAuthenticated", TrueText)

\* what the user types or pastes into the phone field
PhoneEntries ==
    {<<"9", "8", "7", "6", "5", " ", "4", "3", "2", "1", "0", "7">>,
     <<"1", "2", "3", "4", "5", "6", "7", "8", "9", "0">>}

CountryCodes == {"+91", "+1"}

\* what the user pastes into the first OTP box
OtpPastes ==
    {generateOTP(0), <<"9", "-", "9", "9", "9">>, <<"1", "0", "0", "0", "0", "0">>}

BrowserSmsOutcomes ==
    {[kind |-> "resolved", status |-> 200, data |-> SmsBody("Success", OTP_Matched)],
     [kind |-> "httpError", status |-> 400, data |-> SmsBody("Error", OTP_Mismatch)],
     [kind |-> "noResponse", status |-> 0, data |-> NullBody]}

BrowserOutcomes(api) == IF api = "sms" THEN BrowserSmsOutcomes ELSE {Delivered, Unreachable}

\* the user waits on the OTP step until the resend link appears: the countdown
\* effect fires once a second until the timer stops
ResendTimerRunsOut ==
    /\ Mounted
    /\ ui.form.resendTimer > 0
    /\ ui' = [ui EXCEPT !.form.resendTimer = 0]
    /\ ServerIdle

InitBrowserOver(sessions, paths) ==
    /\ otpStorage = EmptyMap
    /\ now = 0
    /\ sweepDue = SWEEP_INTERVAL
    /\ inflight = EmptyBag
    /\ last = NoEvent
    /\ latest = [p \in ValidKeys |-> NoneStored]
    /\ sends = 0
    /\ ui \in {Browser(stored, path) : stored \in sessions, path \in paths}

\* what the user and the network can do, the timers apart
BrowserStep(paths, entries, codes, keys, pastes) ==
    \/ checkAuth
    \/ \E path \in paths : OpenUrl(path)
    \/ DashboardLogout
    \/ \E value \in entries : handlePhoneChange(value)
    \/ \E code \in codes : handleCountrySelect(code)
    \/ handleSendOtp
    \/ \E value \in keys : handleOtpChange(0, value)
    \/ \E text \in pastes : handleOtpPaste(text)
    \/ handleVerifyOtp
    \/ handleResendOtp
    \/ handleBack
    \/ handleBackToSMS
    \/ RequestArrives
    \/ \E o \in BrowserOutcomes(ui.awaiting.api) : ResponseArrives(o)
    \/ NetworkError
    \/ SuccessTimerFires
    \/ LoginTimerFires

(* ---- logging in and out: every page, the countdown taken in one step ---- *)
LoginAppPaths == {"/", "/login/whatsapp-meta", "/dashboard"}

InitLogin == InitBrowserOver({EmptyMap, StoredSession, StoredFlagOnly}, LoginAppPaths)

NextLogin ==
    \/ BrowserStep(LoginAppPaths, PhoneEntries, CountryCodes, {"", "7", "x"}, OtpPastes)
    \/ ResendTimerRunsOut

SpecLogin == InitLogin /\ [][NextLogin]_vars

(* ---- the resend countdown second by second, one phone number, one code ---- *)
ResendPaths == {"/", "/login/whatsapp"}

InitResend == InitBrowserOver({EmptyMap}, ResendPaths)

NextResend ==
    \/ BrowserStep(ResendPaths, {formatPhoneNumber(PhoneAPrefixed)}, {"+91"}, {"7"},
                   {generateOTP(0)})
    \/ ResendTimerFires

SpecResend == InitResend /\ [][NextResend]_vars

(* ======================= properties ======================= *)
\* the step just taken called verifyStoredOTP (last' is its record, the
\* unprimed variables are the state it ran in)
VerifyStep == last'.op = "verify" /\ last'.called

SamePhoneAndCode == last'.phone = last.phone /\ last'.otp = last.otp

\* C1: after storeOTP(P, C), an immediate verifyStoredOTP(P, C) returns valid and
\* deletes the record, and a second immediate verifyStoredOTP(P, C) returns
\* NotFound.
C1_SingleUse ==
    [][VerifyStep /\ SamePhoneAndCode =>
         /\ last.op = "stored" =>
               /\ last'.valid
               /\ last'.reason = MsgVerified
               /\ last'.phone \notin DOMAIN otpStorage'
         /\ (last.op = "verify" /\ last.valid) =>
               /\ ~last'.valid
               /\ last'.reason = MsgNotFound]_vars

\* the second of two immediate verifies with the stored code, right after the
\* send that stored it, was answered NotFound
C1_Witness ==
    /\ last.op = "verify" /\ last.called /\ last.reason = MsgNotFound
    /\ last.phone \in ValidKeys
    /\ latest[last.phone].verified = 1
    /\ latest[last.phone].otp = last.otp
    /\ sends = 1 /\ now = 0

\* C2: verifyStoredOTP(P, C) in a state with no record for P returns valid=false
\* with the NotFound reason and leaves the store unchanged.
C2_NotFound ==
    [][VerifyStep /\ last'.phone \notin DOMAIN otpStorage =>
         /\ ~last'.valid
         /\ last'.reason = MsgNotFound
         /\ otpStorage' = otpStorage]_vars

\* NotFound for a phone whose code was stored and never verified: the record
\* was rolled back, swept or lazily expired
C2_Witness ==
    /\ last.op = "verify" /\ last.called /\ last.reason = MsgNotFound
    /\ last.phone \in ValidKeys
    /\ latest[last.phone].otp # <<>>
    /\ latest[last.phone].verified = 0

\* C3: before expiry, every verifyStoredOTP(P, C2) with C2 different from the
\* stored code returns Mismatch and leaves the record unchanged, and a
\* verifyStoredOTP(P, C1) with the stored code returns valid, however many
\* mismatches came before.
C3_MismatchKeeps ==
    [][(VerifyStep /\ last'.phone \in DOMAIN otpStorage
           /\ now <= otpStorage[last'.phone].expiresAt) =>
         IF otpStorage[last'.phone].otp # last'.otp
         THEN /\ ~last'.valid
              /\ last'.reason = MsgMismatch
              /\ otpStorage' = otpStorage
         ELSE last'.valid]_vars

\* a mismatching verify was answered and the record is still there
C3_Witness ==
    /\ last.op = "verify" /\ last.reason = MsgMismatch
    /\ last.phone \in DOMAIN otpStorage
    /\ otpStorage[last.phone].otp # last.otp
    /\ otpStorage[last.phone].otp = latest[last.phone].otp

\* C4 as stated: verifyStoredOTP(P, C) with the stored code at every time
\* t >= expiresAt, t = expiresAt included, returns Expired and removes the record.
C4_ExpiredFromTTL ==
    [][(VerifyStep /\ last'.phone \in DOMAIN otpStorage
           /\ otpStorage[last'.phone].otp = last'.otp
           /\ now >= otpStorage[last'.phone].expiresAt) =>
         /\ last'.reason = MsgExpired
         /\ last'.phone \notin DOMAIN otpStorage']_vars

\* C4 amended: verifyStoredOTP(P, C) at every time t > expiresAt returns Expired
\* and removes the record, and the next verify for P returns NotFound; at
\* t = expiresAt exactly the stored code is still accepted.
C4_ExpiredAfterTTL ==
    [][/\ (VerifyStep /\ last'.phone \in DOMAIN otpStorage
              /\ otpStorage[last'.phone].otp = last'.otp) =>
            /\ now > otpStorage[last'.phone].expiresAt =>
                  /\ ~last'.valid
                  /\ last'.reason = MsgExpired
                  /\ last'.phone \notin DOMAIN otpStorage'
            /\ now = otpStorage[last'.phone].expiresAt => last'.valid
       /\ (VerifyStep /\ last.op = "verify" /\ last.reason = MsgExpired
              /\ last'.phone = last.phone) =>
            last'.reason = MsgNotFound]_vars

\* the stored code was presented after its expiry and answered Expired
C4_Witness ==
    /\ last.op = "verify" /\ last.reason = MsgExpired
    /\ last.phone \in ValidKeys
    /\ latest[last.phone].otp = last.otp
    /\ last.phone \notin DOMAIN otpStorage

\* C5: every call of verifyStoredOTP returns exactly one of NotFound, Expired,
\* Mismatch, Verified by strict priority: NotFound iff no record exists, else
\* Expired iff now > expiresAt (also for a wrong code; record deleted), else
\* Mismatch iff the codes differ (record kept), else Verified (record deleted).
C5_StrictPriority ==
    [][VerifyStep =>
         LET p == last'.phone
             outcome == <<last'.valid, last'.reason, otpStorage'>>
         IN  IF p \notin DOMAIN otpStorage
             THEN outcome = <<FALSE, MsgNotFound, otpStorage>>
             ELSE IF now > otpStorage[p].expiresAt
             THEN outcome = <<FALSE, MsgExpired, MapDelete(otpStorage, p)>>
             ELSE IF otpStorage[p].otp # last'.otp
             THEN outcome = <<FALSE, MsgMismatch, otpStorage>>
             ELSE outcome = <<TRUE, MsgVerified, MapDelete(otpStorage, p)>>]_vars

\* a wrong code on an expired record was answered Expired, not Mismatch
C5_Witness ==
    /\ last.op = "verify" /\ last.reason = MsgExpired
    /\ last.phone \in ValidKeys
    /\ latest[last.phone].otp # last.otp

\* C6: a new send replaces the pending code and never resurrects or validates
\* an old one: a verify is valid only for the code of the most recent
\* storeOTP(P, *), the store never holds any other code for P, and after a valid
\* verify no record for P exists until the next storeOTP(P, *).
C6_ReplaceNeverResurrect ==
    /\ (last.op = "verify" /\ last.valid) =>
          /\ last.phone \in ValidKeys
          /\ last.otp = latest[last.phone].otp
    /\ \A p \in DOMAIN otpStorage :
          /\ otpStorage[p].otp = latest[p].otp
          /\ latest[p].verified = 0

\* the code of the earlier send was presented after a later send replaced it,
\* and was refused
C6_Witness ==
    /\ last.op = "verify" /\ last.called /\ ~last.valid
    /\ last.reason = MsgMismatch
    /\ last.phone \in ValidKeys
    /\ latest[last.phone].prev = last.otp
    /\ latest[last.phone].otp # last.otp

Thrown(o) == o.kind \in {"httpError", "noResponse"}

\* C7: on the two send endpoints, whenever the delivery call throws (HTTP error
\* status or no answer), the response is a failure and no record for P is in the
\* store when it is sent, so a following verify for P with the generated code
\* returns NotFound.
C7_SendRollbackOnThrow ==
    [][/\ (last'.op = "reply" /\ last'.route = "send-otp" /\ Thrown(last'.outcome)) =>
            /\ ~last'.success
            /\ last'.status # 200
            /\ last'.phone \notin DOMAIN otpStorage'
       /\ (last.op = "reply" /\ last.route = "send-otp" /\ Thrown(last.outcome)
              /\ VerifyStep /\ SamePhoneAndCode) =>
            last'.reason = MsgNotFound]_vars

\* a send whose delivery call threw has answered, and the code it generated was
\* the one stored last for its phone
C7_Witness ==
    /\ last.op = "reply" /\ last.route = "send-otp" /\ Thrown(last.outcome)
    /\ last.phone \in ValidKeys
    /\ latest[last.phone].otp = last.otp
    /\ latest[last.phone].verified = 0

\* C8: on the two resend endpoints, whenever the delivery call fails (it throws,
\* or the endpoint answers with a failure), no record for P is in the store
\* when the failure response is sent.
C8_ResendRollback ==
    (last.op = "reply" /\ last.route = "resend-otp"
        /\ (Thrown(last.outcome) \/ ~last.success)) =>
       /\ ~last.success
       /\ last.phone \notin DOMAIN otpStorage

\* the provider's own verdict, read from the body of its answer
Accepted(ep, o) ==
    /\ o.kind = "resolved"
    /\ o.data.truthy
    /\ IF ep = "whatsapp" THEN o.data.success ELSE o.data.accepted

ReportsFailure(o) ==
    /\ o.kind \in {"resolved", "httpError"}
    /\ o.data.truthy
    /\ ~o.data.success
    /\ ~o.data.accepted

\* C9: on every send or resend endpoint the response is success=true, with the
\* record kept, only if the provider's answer says the message was accepted, and
\* whenever the provider's answer reports failure in its body, whatever the HTTP
\* status, the response is a failure and the record for P is removed.
C9_ProviderVerdict ==
    last.op = "reply" =>
       /\ last.success => Accepted(last.ep, last.outcome)
       /\ ReportsFailure(last.outcome) =>
             /\ ~last.success
             /\ last.phone \notin DOMAIN otpStorage

\* C10: for each record created by one storeOTP(P, C), at most one
\* verifyStoredOTP call returns valid, whatever verifies, mismatches and sweeps
\* are interleaved; once one request has been answered valid, every other
\* request for P, the stored code included, gets NotFound until the next send.
C10_ExactlyOnce ==
    [][/\ \A p \in ValidKeys : latest'[p].verified <= 1
       /\ (VerifyStep /\ last'.phone \in ValidKeys
              /\ latest[last'.phone].verified = 1) =>
            /\ ~last'.valid
            /\ last'.reason = MsgNotFound]_vars

\* a second request with the stored code was answered NotFound after the first
\* one consumed the record, with a sweep run in the same behaviour
C10_Witness ==
    /\ last.op = "verify" /\ last.called /\ last.reason = MsgNotFound
    /\ last.phone \in ValidKeys
    /\ latest[last.phone].verified = 1
    /\ latest[last.phone].otp = last.otp
    /\ sweepDue # SWEEP_INTERVAL

\* C11: two concurrent sends storeOTP(P, Ca) and storeOTP(P, Cb) for one phone,
\* in either order, leave one record for P, and it is whole: its code, createdAt
\* and expiresAt are those of the write made last, never the code of one write
\* with the timestamps of the other; no later step alters a record it keeps.
C11_LastWriteWhole ==
    [][/\ last'.op = "stored" =>
            /\ last'.phone \in DOMAIN otpStorage'
            /\ otpStorage'[last'.phone] =
                  [otp |-> last'.otp, createdAt |-> now,
                   expiresAt |-> now' + OTP_EXPIRY_MINUTES]
       /\ last'.op # "stored" =>
            \A p \in DOMAIN otpStorage' :
               p \in DOMAIN otpStorage /\ otpStorage'[p] = otpStorage[p]]_vars

\* two sends for one phone are suspended at their delivery calls with different
\* codes, the second one stored later than the first, and the record is the
\* second one's
C11_Witness ==
    /\ Pending = 2
    /\ \E r1, r2 \in BagToSet(inflight) :
          /\ r1.phone = r2.phone /\ r1.otp # r2.otp
          /\ r1.phone \in DOMAIN otpStorage
          /\ latest[r1.phone] = [otp |-> r2.otp, prev |-> r1.otp, verified |-> 0]
          /\ otpStorage[r1.phone].otp = r2.otp
          /\ otpStorage[r1.phone].createdAt > 0

\* C12: operations on one phone never touch another phone's record: for
\* P1 # P2, a send (storeOTP) for P1, a verify for P1 with any outcome, and a
\* rollback delete for P1 leave the record of P2 (presence, code, createdAt,
\* expiresAt) unchanged, also when both phones hold the same code.
C12_OtherPhoneUntouched ==
    [][last'.op \in {"stored", "verify", "reply", "reject"} =>
         \A p \in ValidKeys \ {last'.phone} :
            /\ p \in DOMAIN otpStorage' <=> p \in DOMAIN otpStorage
            /\ p \in DOMAIN otpStorage => otpStorage'[p] = otpStorage[p]]_vars

\* one phone's code was verified and consumed while the other phone holds a
\* record with the same code
C12_Witness ==
    /\ last.op = "verify" /\ last.valid
    /\ \E p \in ValidKeys \ {last.phone} :
          /\ p \in DOMAIN otpStorage
          /\ otpStorage[p].otp = last.otp

\* the response fields of a handler result
Response(r) == <<r.status, r.success, r.verified, r.message>>

\* C13: the delegated SMS flow and the local store never share state: no step
\* of /api/send-otp, /api/verify-otp or /api/resend-otp creates, replaces or
\* deletes a record of otpStorage, the response is the same for every store
\* content, and a code stored by a WhatsApp send cannot make /api/verify-otp
\* succeed.
C13_SmsFlowApartFromStore ==
    [][last'.ep = "sms" =>
         /\ otpStorage' = otpStorage
         /\ last'.op = "reply" =>
               LET req == [ep |-> "sms", route |-> last'.route, raw |-> last'.phone,
                           phone |-> last'.phone, otp |-> last'.otp]
                   stores == {EmptyMap, otpStorage,
                              storeOTP(otpStorage, last'.phone, last'.otp, now, now)}
               IN  \A m \in stores :
                      Response(SmsHandleReply(m, req, last'.outcome)) = Response(last')]_vars

\* /api/verify-otp was called with the code the store holds, unexpired, for that
\* phone, the provider did not confirm it, and the response is verified=false
C13_Witness ==
    /\ last.op = "reply" /\ last.ep = "sms" /\ last.route = "verify-otp"
    /\ last.phone \in DOMAIN otpStorage
    /\ otpStorage[last.phone].otp = last.otp
    /\ now <= otpStorage[last.phone].expiresAt
    /\ last.verified = "false"

SmsVerifyReply == last.op = "reply" /\ last.ep = "sms" /\ last.route = "verify-otp"

ProviderMatched(o) ==
    /\ o.kind = "resolved"
    /\ ~o.data.isNull
    /\ o.data.Status = "Success"
    /\ o.data.Details = OTP_Matched

\* C14: /api/verify-otp responds verified=true if and only if the provider's
\* verify answer has Status 'Success' and Details 'OTP Matched'; every other
\* answer, every provider HTTP error and an unreachable provider give
\* verified=false, and the unreachable provider is reported as the transient
\* error (503, service unavailable), not as an invalid code.
C14_VerifiedIffProviderMatched ==
    SmsVerifyReply =>
       /\ last.verified \in {"true", "false"}
       /\ last.verified = "true" <=> ProviderMatched(last.outcome)
       /\ last.outcome.kind = "noResponse" =>
             /\ last.status = 503
             /\ last.message =
                   "Unable to connect to verification service. Please try again later."

\* /api/verify-otp has answered 503 after the provider could not be reached
C14_Witness ==
    /\ SmsVerifyReply
    /\ last.outcome.kind = "noResponse"
    /\ last.status = 503 /\ last.verified = "false"

\* the provider's answer carries a Details text containing the phrase
DetailContains(o, phrase) ==
    /\ o.kind \in {"resolved", "httpError"}
    /\ ~o.data.isNull
    /\ Includes(o.data.Details, phrase)

\* C15: for every answer of the provider to a verify call whose detail contains
\* "OTP Expired", arriving as the body of a successful HTTP response or as an
\* HTTP error, /api/verify-otp reports the Expired message, and for a detail
\* containing "No OTP request" the NotFound message.
C15_ExpiredDetailMapped ==
    SmsVerifyReply =>
       /\ DetailContains(last.outcome, OTP_Expired) => last.message = MsgExpired
       /\ DetailContains(last.outcome, No_OTP_request) => last.message = MsgNotFound

\* C16: every endpoint that calls an upstream provider (SMS send, verify,
\* resend; WhatsApp and Meta WhatsApp send and resend) responds 503 when the
\* provider is unreachable, never 500 or 400.
C16_Unreachable503 ==
    (last.op = "reply" /\ last.outcome.kind = "noResponse") => last.status = 503

\* C17: for every endpoint and every response, success is true exactly when the
\* status is 200; every response of the three verify endpoints carries a
\* verified field equal to success; a local verification failure (NotFound,
\* Expired, Mismatch) and a validation failure are status 400.
C17_SuccessIffOk ==
    last.status # 0 =>
       /\ last.success <=> last.status = 200
       /\ last.route = "verify-otp" =>
             /\ last.verified \in {"true", "false"}
             /\ last.verified = "true" <=> last.success
       /\ (last.op = "verify" /\ ~last.valid) =>
             /\ last.status = 400
             /\ last.called => last.reason \in {MsgNotFound, MsgExpired, MsgMismatch}
       /\ last.op = "reject" => last.status = 400

\* a WhatsApp verify endpoint has answered Expired with status 400,
\* success=false, verified=false
C17_Witness ==
    /\ last.op = "verify" /\ last.called
    /\ last.reason = MsgExpired
    /\ last.status = 400 /\ ~last.success /\ last.verified = "false"

\* the messages the server's handlers hold as literals
ServerMessages ==
    {MsgNotFound, MsgExpired, MsgMismatch,
     "Phone number is required", "Phone number and OTP are required",
     "Invalid phone number. Please enter a valid 10-digit Indian mobile number.",
     "Invalid phone number.",
     "Invalid OTP format. Please enter a valid OTP.",
     "Invalid OTP format. Please enter a valid 4-digit OTP.",
     "Failed to send OTP. Please try again.",
     "Unable to connect to SMS service. Please try again later.",
     "Internal server error. Please try again later.",
     "OTP verification failed. Please try again.",
     "Unable to connect to verification service. Please try again later.",
     "Failed to resend OTP. Please try again.",
     "Failed to resend OTP. Please try again later.",
     "Failed to send WhatsApp OTP. Please try again.",
     "Failed to send WhatsApp OTP.",
     "Failed to send WhatsApp OTP. Please try again later.",
     "Failed to resend WhatsApp OTP."}

\* C18: upstream failures reach the caller only in the server's own
\* vocabulary: the message of every failure response is one of the server's
\* fixed messages and its status is 400, 500 or 503; text and status codes
\* supplied by the provider are never copied into the response.
C18_OwnVocabulary ==
    (last.status # 0 /\ ~last.success) =>
       /\ last.status \in {400, 500, 503}
       /\ last.message \in ServerMessages

SweepStep == last'.op = "sweep"

\* C19: one run of the sweep at time now deletes every record with
\* now > expiresAt and nothing else: afterwards no stored record is expired, and
\* every record with now <= expiresAt is still present with unchanged code,
\* createdAt and expiresAt; no verify call is needed for it.
C19_SweepDeletesExpiredOnly ==
    [][SweepStep =>
         /\ DOMAIN otpStorage' \subseteq DOMAIN otpStorage
         /\ \A p \in DOMAIN otpStorage :
               IF now > otpStorage[p].expiresAt
               THEN p \notin DOMAIN otpStorage'
               ELSE p \in DOMAIN otpStorage' /\ otpStorage'[p] = otpStorage[p]
         /\ \A p \in DOMAIN otpStorage' : ~(now' > otpStorage'[p].expiresAt)]_vars

\* a sweep has run with both sends still awaiting delivery: the record of one
\* phone, never verified, is gone and the later record of the other phone is
\* kept
C19_Witness ==
    /\ last.op = "sweep"
    /\ Pending = 2
    /\ \E p, q \in ValidKeys :
          /\ p # q
          /\ latest[p].otp # <<>> /\ latest[p].verified = 0
          /\ p \notin DOMAIN otpStorage
          /\ q \in DOMAIN otpStorage
          /\ now <= otpStorage[q].expiresAt

\* C20: the sweep is idempotent: run twice in a row at the same time, with no
\* operation in between, the second run leaves the store as the first run
\* left it.
C20_SweepIdempotent ==
    [][SweepStep => sweep(otpStorage', now') = otpStorage']_vars

\* a sweep has run with both sends still awaiting delivery, when the records of
\* both phones were past their expiry, and the store is empty
C20_Witness ==
    /\ last.op = "sweep"
    /\ Pending = 2
    /\ otpStorage = EmptyMap
    /\ \A p \in ValidKeys : latest[p].otp # <<>> /\ latest[p].verified = 0

\* C21: sweep and lazy expiry never conflict: for an expired record of P, the
\* sweep followed by verifyStoredOTP(P, *) and verifyStoredOTP(P, *) followed by
\* the sweep both complete and end in the same store, with no record for P and
\* every other record as one sweep alone leaves it.
C21_SweepAndLazyExpiryCommute ==
    [][(VerifyStep /\ last'.phone \in DOMAIN otpStorage
           /\ now > otpStorage[last'.phone].expiresAt) =>
         LET p == last'.phone
             swept == sweep(otpStorage, now)
             sweepThenVerify == verifyStoredOTP(swept, p, last'.otp, now)
             verifyThenSweep == sweep(otpStorage', now)
         IN  /\ sweepThenVerify.message = MsgNotFound
             /\ sweepThenVerify.storage = verifyThenSweep
             /\ p \notin DOMAIN verifyThenSweep
             /\ verifyThenSweep = swept]_vars

\* a verify has removed the expired record of its phone while the other phone
\* holds a record that is still valid, so that a sweep has records to keep
C21_Witness ==
    /\ last.op = "verify" /\ last.reason = MsgExpired
    /\ last.phone \notin DOMAIN otpStorage
    /\ \E q \in ValidKeys \ {last.phone} :
          /\ q \in DOMAIN otpStorage
          /\ now <= otpStorage[q].expiresAt

\* what verifyStoredOTP answers: the valid flag and the reason
Outcome(r) == <<r.valid, r.message>>

VerifyCodes == {generateOTP(k) : k \in RandSamples}

\* C22 as stated: for every reachable store, time, phone P and code C,
\* verifyStoredOTP(P, C) returns the same outcome (valid flag and reason among
\* NotFound, Expired, Mismatch, Verified) whether or not the sweep ran before it.
C22_SweepKeepsOutcome ==
    \A p \in ValidKeys, c \in VerifyCodes :
       Outcome(verifyStoredOTP(sweep(otpStorage, now), p, c, now))
          = Outcome(verifyStoredOTP(otpStorage, p, c, now))

\* C22 amended: verifyStoredOTP(P, C) returns the same valid flag whether or not
\* the sweep ran before it, and the same reason except for an expired record:
\* that one is answered Expired when the sweep has not run and NotFound when it
\* has.
C22_SweepKeepsValidity ==
    \A p \in ValidKeys, c \in VerifyCodes :
       LET unswept == verifyStoredOTP(otpStorage, p, c, now)
           swept == verifyStoredOTP(sweep(otpStorage, now), p, c, now)
       IN  /\ swept.valid = unswept.valid
           /\ IF p \in DOMAIN otpStorage /\ now > otpStorage[p].expiresAt
              THEN unswept.message = MsgExpired /\ swept.message = MsgNotFound
              ELSE swept.message = unswept.message

\* a verify was answered NotFound for an expired code that was never verified
\* and never rolled back (every send still awaits delivery)
C22_Witness ==
    /\ last.op = "verify" /\ last.called /\ last.reason = MsgNotFound
    /\ last.phone \in ValidKeys
    /\ latest[last.phone].otp # <<>>
    /\ latest[last.phone].verified = 0
    /\ Pending = sends
    /\ now > OTP_EXPIRY_MINUTES

ExpiredRecord(p) == p \in DOMAIN otpStorage /\ now > otpStorage[p].expiresAt

\* C23: abandoned records are eventually evicted: as long as the interval timer
\* keeps firing, every record whose expiresAt has passed is eventually deleted,
\* also when no verify request is ever made for its phone.
C23_EventuallyEvicted ==
    \A p \in ValidKeys : ExpiredRecord(p) ~> (p \notin DOMAIN otpStorage)

\* the second sweep has run and the store is empty, with a code that was stored
\* and never verified
C23_Witness ==
    /\ last.op = "sweep"
    /\ sweepDue > SWEEP_INTERVAL + SWEEP_INTERVAL
    /\ otpStorage = EmptyMap
    /\ \E p \in ValidKeys : latest[p].otp # <<>> /\ latest[p].verified = 0

DigitValue(c) == CHOOSE d \in 0..9 : DigitChar[d + 1] = c

RECURSIVE ParseInt(_)
ParseInt(s) ==
    IF s = <<>> THEN 0
    ELSE 10 * ParseInt(SubSeq(s, 1, Len(s) - 1)) + DigitValue(s[Len(s)])

FourDigitCode(s) ==
    /\ Len(s) = 4
    /\ AllDigits(s)
    /\ s[1] # "0"
    /\ ParseInt(s) \in 1000..9999

\* C24: every code returned by generateOTP, and so the code of every record in
\* the store, is a string of exactly 4 decimal digits with a value in
\* 1000..9999 (first digit never 0), for every value the random source yields.
C24_FourDigitCode ==
    /\ last.op = "stored" => FourDigitCode(last.otp)
    /\ \A p \in DOMAIN otpStorage : FourDigitCode(otpStorage[p].otp)

\* the largest draw of the random source has been stored as "9999"
C24_Witness ==
    /\ last.op = "stored"
    /\ last.otp = <<"9", "9", "9", "9">>
    /\ otpStorage[last.phone].otp = last.otp

\* C25: every record in the store satisfies expiresAt = createdAt + 5 minutes
\* exactly, and hence expiresAt > createdAt, whatever the clock does between
\* the two clock reads made inside storeOTP.
C25_ExpiryIsCreationPlusTTL ==
    \A p \in DOMAIN otpStorage :
       /\ otpStorage[p].expiresAt = otpStorage[p].createdAt + OTP_EXPIRY_MINUTES
       /\ otpStorage[p].expiresAt > otpStorage[p].createdAt

\* the validator's normal form: 10 digits, the first one 6-9, no separators, and
\* no country-code prefix left for formatPhoneNumber to remove
NormalForm(key) ==
    /\ Len(key) = 10
    /\ AllDigits(key)
    /\ key[1] \in {"6", "7", "8", "9"}
    /\ \A i \in 1..Len(key) : key[i] \notin StripChars \cup {"+"}
    /\ formatPhoneNumber(key) = key

C27_RecordsImmutable ==
    [][\A p \in DOMAIN otpStorage \cap DOMAIN otpStorage' :
          otpStorage'[p] # otpStorage[p] =>
             /\ last'.op = "stored"
             /\ last'.phone = p]_vars

\* a sweep has run at the very minute a record expires and kept it as stored
C27_Witness ==
    /\ last.op = "sweep"
    /\ \E p \in DOMAIN otpStorage :
          /\ now = otpStorage[p].expiresAt
          /\ otpStorage[p].expiresAt = otpStorage[p].createdAt + OTP_EXPIRY_MINUTES
          /\ otpStorage[p].otp = latest[p].otp

\* C28: a send or resend request on a locally-tracked channel whose phone
\* number is missing or fails validation is answered at once with status 400
\* and leaves the store unchanged: no record is created, replaced or deleted,
\* and no delivery call is made.
C28_InvalidPhoneRejected ==
    [][(last'.op \in {"stored", "reject"} /\ last'.route \in Routes
           /\ (last'.phone = <<>> \/ ~NormalForm(last'.phone))) =>
         /\ last'.op = "reject"
         /\ last'.status = 400
         /\ ~last'.success
         /\ otpStorage' = otpStorage
         /\ inflight' = inflight]_vars

\* a resend with a phone number that fails validation was refused while the
\* store holds a record
C28_Witness ==
    /\ last.op = "reject" /\ last.route = "resend-otp"
    /\ last.phone # <<>>
    /\ ~NormalForm(last.phone)
    /\ last.status = 400
    /\ otpStorage # EmptyMap

\* C29: every request to every endpoint, whatever its body (missing body,
\* phoneNumber or otp that is not a string), receives exactly one HTTP response;
\* a failure inside a handler that is not a validation, verification or
\* upstream failure is answered with status 500 and a generic message.
C29_AlwaysAnswered ==
    /\ last.op \in {"reject", "reply", "verify", "threw"} => last.status # 0
    /\ last.op = "threw" =>
          /\ last.status = 500
          /\ ~last.success
          /\ last.message \in ServerMessages \cup {"Something went wrong!"}

\* C30: authentication soundness of the local flow: a WhatsApp or Meta WhatsApp
\* verify request for P with code C is answered verified=true only if C is the
\* code written by the most recent storeOTP for P, that record is still in the
\* store (neither verified, rolled back nor swept since), and the current time
\* is not after its expiresAt.
C30_VerifiedOnlyForLiveLatestCode ==
    [][(last'.op = "verify" /\ last'.verified = "true") =>
         LET p == last'.phone
         IN  /\ last'.ep \in Endpoints
             /\ p \in ValidKeys
             /\ p \in DOMAIN otpStorage
             /\ otpStorage[p].otp = last'.otp
             /\ latest[p].otp = last'.otp
             /\ latest[p].verified = 0
             /\ now <= otpStorage[p].expiresAt]_vars

\* the Meta WhatsApp verify endpoint has accepted the code of a second send,
\* different from the first one's, after a sweep had run
C30_Witness ==
    /\ last.op = "verify" /\ last.ep = "whatsapp-meta"
    /\ last.verified = "true"
    /\ latest[last.phone].otp = last.otp
    /\ latest[last.phone].prev \notin {<<>>, last.otp}
    /\ sweepDue > SWEEP_INTERVAL

\* the record of p was written by a send that has responded: no request in
\* flight for p carries its code.  The store holds the record of the latest
\* storeOTP for p, the send that wrote it is not suspended, and had it answered
\* with a failure it would have deleted the record after writing it.
DeliveredRecord(p) ==
    /\ p \in DOMAIN otpStorage
    /\ \A req \in BagToSet(inflight) :
          req.route = "send-otp" /\ (req.phone = p => req.otp # otpStorage[p].otp)

\* C31: a delivered code stays usable: once a send for P has responded success,
\* the record it stored stays in the store, unchanged, until it is successfully
\* verified, expires, or is replaced by a later send for P; the rollback of a
\* different send for P that was in flight concurrently and whose delivery
\* failed does not delete it.
C31_DeliveredStaysUsable ==
    [][\A p \in ValidKeys :
          (DeliveredRecord(p) /\ now <= otpStorage[p].expiresAt) =>
             \/ p \in DOMAIN otpStorage' /\ otpStorage'[p] = otpStorage[p]
             \/ last'.op = "verify" /\ last'.valid /\ last'.phone = p
             \/ last'.op = "stored" /\ last'.phone = p]_vars

\* C32: under every interleaving of a verify request with a send or resend
\* request for the same phone, no verify returns valid for a code whose delivery
\* call ends in failure: a record is not verifiable between storeOTP and the
\* completion of its delivery call.  Stated for the first send or resend the
\* server ever stored a code for, so that the failed request is the one that
\* wrote the verified code.
C32_NoVerifyBeforeDelivery ==
    (last.op = "reply" /\ ~last.success /\ sends = 1) =>
        latest[last.phone].verified = 0

\* C33: the two locally-tracked channels share one record per phone: a code
\* stored by a send or resend on /api/whatsapp is accepted by
\* /api/whatsapp-meta/verify-otp and the reverse, and a send on either channel
\* replaces the pending code that the other channel stored for the same phone.
C33_ChannelsShareRecord ==
    [][(/\ last.op = "stored"
        /\ last'.ep \in Endpoints \ {last.ep}
        /\ last'.phone = last.phone) =>
          /\ (last'.op = "verify" /\ last'.otp = last.otp) =>
                /\ last'.verified = "true"
                /\ last'.status = 200
                /\ last'.phone \notin DOMAIN otpStorage'
          /\ last'.op = "stored" =>
                /\ DOMAIN otpStorage' = DOMAIN otpStorage
                /\ otpStorage'[last'.phone].otp = last'.otp
                /\ VerifyHandler(otpStorage', last.ep, last.phone, last'.otp, now').valid
                /\ last.otp # last'.otp =>
                      ~VerifyHandler(otpStorage', last.ep, last.phone, last.otp, now').valid]_vars

\* the only code the server ever stored was written by a resend on
\* /api/whatsapp that is still awaiting delivery, and
\* /api/whatsapp-meta/verify-otp has accepted it
C33_Witness ==
    /\ last.op = "verify" /\ last.ep = "whatsapp-meta" /\ last.verified = "true"
    /\ sends = 1
    /\ \E req \in BagToSet(inflight) :
          /\ req.ep = "whatsapp" /\ req.route = "resend-otp"
          /\ req.phone = last.phone /\ req.otp = last.otp

\* the digits an otp value shows to a regular expression
OtpText(otp) == IF otp # <<>> /\ otp[1] = "number" THEN SubSeq(otp, 2, Len(otp)) ELSE otp

C36_SameDigitsVerified ==
    [][(/\ last'.op = "verify"
        /\ last'.phone \in DOMAIN otpStorage
        /\ now <= otpStorage[last'.phone].expiresAt
        /\ OtpFormatOk(last'.ep, last'.otp)
        /\ OtpText(last'.otp) = otpStorage[last'.phone].otp) =>
          /\ last'.verified = "true"
          /\ last'.status = 200]_vars

\* the awaited request of the login page settles in this step
Settled == ui.awaiting.handler # "none" /\ ui'.awaiting.handler = "none"

\* the step is the verify endpoint answering with success and verified both true
VerifiedAnswer ==
    /\ last'.op \in {"verify", "reply"}
    /\ last'.route = "verify-otp"
    /\ last'.status \in 200..299
    /\ last'.success
    /\ last'.verified = "true"

\* C37: on both login pages the call of onLoginSuccess and the navigation to
\* /dashboard are scheduled only by a verify response whose success and verified
\* are both true, and nothing else logs the user in; a failed verify sets the
\* error, empties every OTP box and schedules no login; and when a send, verify
\* or resend request settles, with success or with failure, loading is false
C37_LoginOnlyAfterVerified ==
    [][/\ Len(ui'.loginTimers) > Len(ui.loginTimers)
            => Settled /\ ui.awaiting.handler = "verify" /\ VerifiedAnswer
       /\ (~ui.isLoading /\ ~ui.isAuthenticated /\ ui'.isAuthenticated)
            => /\ ui.loginTimers # <<>>
               /\ ui'.loginTimers = Tail(ui.loginTimers)
               /\ ui'.userPhone = Head(ui.loginTimers)
               /\ ui'.path = "/dashboard"
       /\ (Settled /\ ui.awaiting.mounted /\ ui.awaiting.handler = "verify" /\ ~VerifiedAnswer)
            => /\ ui'.form.error # ""
               /\ ui'.form.otp = BlankOtp(ui.path)
               /\ ui'.loginTimers = ui.loginTimers
               /\ ~ui'.isAuthenticated
       /\ (Settled /\ ui.awaiting.mounted) => ~ui'.form.loading]_vars

\* a verify request was refused, the page shows the error over empty boxes and
\* accepts input again
C37_Witness ==
    /\ ui.open
    /\ ui.form.step = "otp"
    /\ last.route = "verify-otp"
    /\ last.status = 400
    /\ ui.form.error = last.message
    /\ ui.form.otp = BlankOtp(ui.path)
    /\ ~ui.form.loading
    /\ ui.loginTimers = <<>>

\* the same login page is on screen before and after the step
SamePage ==
    /\ ui.form.step # "unmounted"
    /\ ui'.form.step # "unmounted"
    /\ ui'.path = ui.path

\* the step is the server answering a send or resend request with success
SentAnswer ==
    /\ Settled
    /\ ui.awaiting.handler \in {"send", "resend"}
    /\ last'.op = "reply"
    /\ last'.route \in {"send-otp", "resend-otp"}
    /\ last'.status \in 200..299
    /\ last'.success

\* C38: on both login pages handleResendOtp issues a request only when
\* resendTimer is 0; resendTimer becomes 30 only on a successful send or resend
\* response, otherwise it changes only by the countdown, which takes exactly 1
\* from a positive value; it is never negative and never above 30
C38_ResendThrottle ==
    [][/\ (ui.awaiting.handler = "none" /\ ui'.awaiting.handler = "resend")
            => ui.form.resendTimer = 0
       /\ (SamePage /\ ui'.form.resendTimer # ui.form.resendTimer)
            => \/ ui'.form.resendTimer = RESEND_SECONDS /\ SentAnswer
               \/ /\ ui.form.resendTimer > 0
                  /\ ui'.form.resendTimer = ui.form.resendTimer - 1
                  /\ ui'.awaiting = ui.awaiting
       /\ ui'.form.step # "unmounted" => ui'.form.resendTimer \in 0..RESEND_SECONDS]_vars

\* the countdown started by the send has run from 30 to 0 and the user's click
\* on the resend link has issued a second request
C38_Witness ==
    /\ ui.open
    /\ ui.form.step = "otp"
    /\ ui.form.resendTimer = 0
    /\ ui.awaiting.handler = "resend"
    /\ ui.form.loading

\* localStorage holds isAuthenticated = 'true' together with a userPhone
SessionStored(u) ==
    /\ "isAuthenticated" \in DOMAIN u.localStorage
    /\ u.localStorage["isAuthenticated"] = TrueText
    /\ "userPhone" \in DOMAIN u.localStorage
    /\ u.localStorage["userPhone"] # <<>>

\* C39: once App's initial load is done, and through every handleLoginSuccess
\* and handleLogout, isAuthenticated is true exactly when localStorage holds
\* isAuthenticated = 'true' together with a userPhone; the Dashboard is on
\* screen only while isAuthenticated is true; and a logout leaves isAuthenticated
\* false, userPhone empty and neither of the two entries in localStorage
C39_AuthMatchesStorage ==
    [][~ui'.isLoading =>
          /\ ui'.isAuthenticated <=> SessionStored(ui')
          /\ ui'.path = "/dashboard" => ui'.isAuthenticated
          /\ ui'.isAuthenticated => ui'.userPhone = ui'.localStorage["userPhone"]
          /\ (~ui.isLoading /\ ui.isAuthenticated /\ ~ui'.isAuthenticated)
                => /\ ui'.userPhone = <<>>
                   /\ "isAuthenticated" \notin DOMAIN ui'.localStorage
                   /\ "userPhone" \notin DOMAIN ui'.localStorage]_vars

\* a WhatsApp code was verified from this browser and, as after a logout, no
\* session is stored, nobody is authenticated and the login page is shown:
\* only the authMethod entry is left in localStorage
C39_Witness ==
    /\ ui.open
    /\ ~ui.isLoading
    /\ ~ui.isAuthenticated
    /\ ui.userPhone = <<>>
    /\ ui.path = "/"
    /\ ui.loginTimers = <<>>
    /\ DOMAIN ui.localStorage = {"authMethod"}
    /\ \E p \in ValidKeys : latest[p].verified = 1

====
